---- MODULE Spec2Model ----
(***************************************************************************)
(* ApexDoc / JSDoc comment generator: the declaration locator, the         *)
(* signature reassembler, the annotation-block top finder and the          *)
(* comment-block membership check, modelled over documents that are        *)
(* sequences of text lines.  A line is a string; the regular expressions   *)
(* of the source are transcribed as pattern trees and matched by a small   *)
(* matcher, so that every test is decided by the text of the line.         *)
(***************************************************************************)
EXTENDS Integers, Sequences, FiniteSets, TLC

VARIABLES
    lang,   \* editor.document.languageId
    doc,    \* editor.document: the lines of the text buffer
    here,   \* the focus line (editor.selection.active.line, position.line)
    arg,    \* the remaining argument of the operation, "null" when it has none
    call,   \* the operation that was applied, "none" before it
    ret,    \* what it returned
    snippets,       \* the snippet files of the extension, by key
    snippetCache    \* _snippetCache: the bodies loaded so far, by key

vars == <<lang, doc, here, arg, call, ret, snippets, snippetCache>>

(***************************************************************************)
(* Characters and strings (JavaScript String methods).                     *)
(***************************************************************************)
Lowers == {"a","b","c","d","e","f","g","h","i","j","k","l","m",
           "n","o","p","q","r","s","t","u","v","w","x","y","z"}

Uppers == {"A","B","C","D","E","F","G","H","I","J","K","L","M",
           "N","O","P","Q","R","S","T","U","V","W","X","Y","Z"}

Digits == {"0","1","2","3","4","5","6","7","8","9"}

\* \w
WordCh == Lowers \cup Uppers \cup Digits \cup {"_"}

\* \s (the white space that occurs in the documents considered)
SpaceCh == {" ", "\t"}

\* [A-Za-z_]
IdStartCh == Lowers \cup Uppers \cup {"_"}

CharAt(s, i) == SubSeq(s, i, i)

UpperSeq == <<"A","B","C","D","E","F","G","H","I","J","K","L","M",
              "N","O","P","Q","R","S","T","U","V","W","X","Y","Z">>

LowerSeq == <<"a","b","c","d","e","f","g","h","i","j","k","l","m",
              "n","o","p","q","r","s","t","u","v","w","x","y","z">>

\* one character lowered, as the "i" flag of a RegExp compares characters
LowerChar(c) ==
    IF c \in Uppers
    THEN LowerSeq[CHOOSE k \in 1..26 : UpperSeq[k] = c]
    ELSE c

RECURSIVE toLowerCase(_)
toLowerCase(s) ==
    IF Len(s) = 0 THEN ""
    ELSE LowerChar(CharAt(s, 1)) \o toLowerCase(SubSeq(s, 2, Len(s)))

\* String.prototype.startsWith
startsWith(s, p) == Len(p) <= Len(s) /\ SubSeq(s, 1, Len(p)) = p

\* String.prototype.indexOf, 1-based; 0 when p does not occur
indexOf(s, p) ==
    LET hits == {i \in 1..(Len(s) - Len(p) + 1) : SubSeq(s, i, i + Len(p) - 1) = p}
    IN IF hits = {} THEN 0 ELSE CHOOSE i \in hits : \A j \in hits : i <= j

\* String.prototype.includes
includes(s, p) == indexOf(s, p) # 0

RECURSIVE trimStart(_)
trimStart(s) ==
    IF Len(s) > 0 /\ CharAt(s, 1) \in SpaceCh
    THEN trimStart(SubSeq(s, 2, Len(s)))
    ELSE s

RECURSIVE trimEnd(_)
trimEnd(s) ==
    IF Len(s) > 0 /\ CharAt(s, Len(s)) \in SpaceCh
    THEN trimEnd(SubSeq(s, 1, Len(s) - 1))
    ELSE s

\* String.prototype.trim
trim(s) == trimEnd(trimStart(s))

(***************************************************************************)
(* Regular expressions.  A pattern is a tree; MatchEnds(re, s, i) is the   *)
(* set of positions j such that re matches s[i..j-1].                      *)
(***************************************************************************)
Set(cs)  == [t |-> "set", cs |-> cs]
NotCh(cs) == [t |-> "not", cs |-> cs]
Lit(str) == [t |-> "lit", str |-> str]
Cat(rs)  == [t |-> "cat", rs |-> rs]
Alt(rs)  == [t |-> "alt", rs |-> rs]
Opt(r)   == [t |-> "opt", r |-> r]
Star(r)  == [t |-> "star", r |-> r]
Plus(r)  == [t |-> "plus", r |-> r]
Bol      == [t |-> "bol"]
Eol      == [t |-> "eol"]
WordB    == [t |-> "wb"]

\* .
AnyCh == NotCh({})

isWordAt(s, i) == i >= 1 /\ i <= Len(s) /\ CharAt(s, i) \in WordCh

RECURSIVE MatchEnds(_, _, _)
RECURSIVE CatEnds(_, _, _, _)
RECURSIVE StarEnds(_, _, _, _)

MatchEnds(re, s, i) ==
    CASE re.t = "set"  -> IF i <= Len(s) /\ CharAt(s, i) \in re.cs THEN {i + 1} ELSE {}
      [] re.t = "not"  -> IF i <= Len(s) /\ CharAt(s, i) \notin re.cs THEN {i + 1} ELSE {}
      [] re.t = "lit"  -> IF i + Len(re.str) - 1 <= Len(s)
                             /\ SubSeq(s, i, i + Len(re.str) - 1) = re.str
                          THEN {i + Len(re.str)} ELSE {}
      [] re.t = "cat"  -> CatEnds(re.rs, 1, s, {i})
      [] re.t = "alt"  -> UNION {MatchEnds(re.rs[k], s, i) : k \in DOMAIN re.rs}
      [] re.t = "opt"  -> {i} \cup MatchEnds(re.r, s, i)
      [] re.t = "star" -> StarEnds(re.r, s, {i}, {i})
      [] re.t = "plus" -> LET first == MatchEnds(re.r, s, i)
                          IN StarEnds(re.r, s, first, first)
      [] re.t = "bol"  -> IF i = 1 THEN {i} ELSE {}
      [] re.t = "eol"  -> IF i = Len(s) + 1 THEN {i} ELSE {}
      [] re.t = "wb"   -> IF isWordAt(s, i - 1) # isWordAt(s, i) THEN {i} ELSE {}

CatEnds(rs, k, s, from) ==
    IF k > Len(rs) \/ from = {} THEN from
    ELSE CatEnds(rs, k + 1, s, UNION {MatchEnds(rs[k], s, i) : i \in from})

StarEnds(r, s, seen, frontier) ==
    LET next == UNION {MatchEnds(r, s, i) : i \in frontier} \ seen
    IN IF next = {} THEN seen ELSE StarEnds(r, s, seen \cup next, next)

\* RegExp.prototype.test without the "i" flag
Test(re, s) == \E i \in 1..(Len(s) + 1) : MatchEnds(re, s, i) # {}

\* RegExp.prototype.test with the "i" flag (patterns are written in lower case)
TestI(re, s) == Test(re, toLowerCase(s))

\* the start of the leftmost match, 0 when there is none
MatchStart(re, s) ==
    LET hits == {i \in 1..(Len(s) + 1) : MatchEnds(re, s, i) # {}}
    IN IF hits = {} THEN 0 ELSE CHOOSE i \in hits : \A j \in hits : i <= j

\* SharedHelpers.stripLineComments: s.replace(/\/\/.*$/, "")
stripLineComments(s) ==
    LET k == indexOf(s, "//")
    IN IF k = 0 THEN s ELSE SubSeq(s, 1, k - 1)

(***************************************************************************)
(* Documents (vscode.TextDocument): a sequence of lines, 0-indexed.        *)
(***************************************************************************)
lineCount(d) == Len(d)

lineAt(d, i) == d[i + 1]

Max(a, b) == IF a >= b THEN a ELSE b

Min(a, b) == IF a <= b THEN a ELSE b

\* the largest / smallest element of a non-empty set of line numbers
Highest(S) == CHOOSE i \in S : \A j \in S : j <= i

Lowest(S) == CHOOSE i \in S : \A j \in S : i <= j

(***************************************************************************)
(* The Apex grammar (ApexHelpers.ts).  Patterns used with the "i" flag are *)
(* written in lower case and tested with TestI.                            *)
(***************************************************************************)
Sp == Set(SpaceCh)

\* (public|private|protected|global)
ReVis == Alt(<<Lit("public"), Lit("private"), Lit("protected"), Lit("global")>>)

\* [\w<>\[\],\s?]
TypeCh == WordCh \cup SpaceCh \cup {"<", ">", "[", "]", ",", "?"}

\* [A-Za-z_]\w*
ReIdent == Cat(<<Set(IdStartCh), Star(Set(WordCh))>>)

\* /^\s*[A-Z0-9_]+\s*(=.+)?\s*,?\s*$/
ReEnumValue ==
    Cat(<<Bol, Star(Sp), Plus(Set(Uppers \cup Digits \cup {"_"})), Star(Sp),
          Opt(Cat(<<Lit("="), Plus(AnyCh)>>)), Star(Sp), Opt(Lit(",")), Star(Sp), Eol>>)

\* new RegExp(`^\\s*(public|private|protected|global)?\\s*${className}\\s*\\(`, "i")
ReCtor(className) ==
    Cat(<<Bol, Star(Sp), Opt(ReVis), Star(Sp), Lit(toLowerCase(className)), Star(Sp), Lit("(")>>)

\* /^\s*(public|private|protected|global)?\s*(static\s+)?[\w<>\[\],\s?]+\s+[A-Za-z_]\w*\s*\(/i
ReMethod ==
    Cat(<<Bol, Star(Sp), Opt(ReVis), Star(Sp), Opt(Cat(<<Lit("static"), Plus(Sp)>>)),
          Plus(Set(TypeCh)), Plus(Sp), ReIdent, Star(Sp), Lit("(")>>)

\* /^\s*(public|private|protected|global)?\s*(virtual|abstract|with\s+sharing|without\s+sharing)?
\*   \s*(class|interface|enum)\s+[A-Za-z_]\w*/i
ReClass ==
    Cat(<<Bol, Star(Sp), Opt(ReVis), Star(Sp),
          Opt(Alt(<<Lit("virtual"), Lit("abstract"),
                    Cat(<<Lit("with"), Plus(Sp), Lit("sharing")>>),
                    Cat(<<Lit("without"), Plus(Sp), Lit("sharing")>>)>>)),
          Star(Sp), Alt(<<Lit("class"), Lit("interface"), Lit("enum")>>), Plus(Sp), ReIdent>>)

\* /^\s*(public|private|protected|global)?\s*(static\s+)?[\w<>\[\],\s?]+\s+[A-Za-z_]\w*
\*   \s*\{\s*get;\s*set;\s*\}/i
ReProperty ==
    Cat(<<Bol, Star(Sp), Opt(ReVis), Star(Sp), Opt(Cat(<<Lit("static"), Plus(Sp)>>)),
          Plus(Set(TypeCh)), Plus(Sp), ReIdent, Star(Sp), Lit("{"), Star(Sp),
          Lit("get;"), Star(Sp), Lit("set;"), Star(Sp), Lit("}")>>)

\* /\b(class|interface)\b/i
ReClassOrInterfaceWord == Cat(<<WordB, Alt(<<Lit("class"), Lit("interface")>>), WordB>>)

\* /\benum\s+[A-Za-z_]\w*/i
ReEnumDecl == Cat(<<WordB, Lit("enum"), Plus(Sp), ReIdent>>)

\* /\bclass\s+([A-Za-z_]\w*)/i : the text before the capture group
ReClassKeyword == Cat(<<WordB, Lit("class"), Plus(Sp)>>)

\* txt.match(/\bclass\s+([A-Za-z_]\w*)/i): m[1], or "" when there is no match
\* (a captured name is never empty, and the callers test it for truthiness)
classNameIn(txt) ==
    LET low   == toLowerCase(txt)
        start == MatchStart(Cat(<<ReClassKeyword, ReIdent>>), low)
    IN IF start = 0 THEN ""
       ELSE LET from == Highest({e \in MatchEnds(ReClassKeyword, low, start) :
                                    MatchEnds(ReIdent, low, e) # {}})
                to   == Highest(MatchEnds(ReIdent, low, from))
            IN SubSeq(txt, from, to - 1)

(***************************************************************************)
(* The lines documents are made of.  A pattern's verdict on a line depends *)
(* on the text alone, so each pattern is tested once per text and the      *)
(* scans look the verdict up.                                              *)
(***************************************************************************)
\* lines of Apex documents
ApexPool == {"", "x = 1;", "@AuraEnabled", "public class Foo {", "void bar() {",
             "public Foo(Integer a) {", "RED,", "enum Color {",
             "public String name { get; set; }"}

\* lines of JS/TS documents
JsPool == {"", "// c", "@api", "function foo(a, b) {", "const x = 1;"}

\* lines of Apex signatures, on one line and split over two
ApexSigPool == {"", "void foo(Integer a, String b)", "void foo(Integer a, String b) {",
                "void foo(Integer a,", "String b) {", "void foo()", "void foo() {", "{",
                "public class Foo {", "public Foo(Integer a) {",
                "void foo(Integer b, , String a, Integer b) {"}

\* lines of JS/TS signatures
JsSigPool == {"", "function foo(a, b) {", "function foo(a,", "b) {", "function foo() {",
              "function foo(a = 1, b: string) {", "function foo(a, {b}) {", "// c",
              "function foo(b, {}, a, b) {"}

\* lines above a declaration
TopPool == {"", "@AuraEnabled", "@api", "x = 1;", "void bar() {"}

\* lines in and around block comments
BlockPool == {"", "/**", " * @param a", " */", "x = 1;", "/** c */", "x = 1; /** c */"}

\* (p) => `* @param ${p} description` (generateApexDoc)
apexParamLine(p) == "* @param " \o p \o " description"

\* (p, i) => ` * @param {any} ${p} ${i === 0 ? "${2:description}" : "description"}`
\* (generateJsDoc), i counted from 1 here
jsParamLine(p, i) ==
    " * @param {any} " \o p \o " " \o (IF i = 1 THEN "${2:description}" ELSE "description")

\* const returnsLine of ensureReturnsInJSDoc
returnsLine2 == " * @returns {any} ${2:What is returned}"

\* const returnsLine of replaceOrInjectJsParamsAndReturns
returnsLine3 == " * @returns {any} ${3:What is returned}"

\* the parameter names of the signatures above
ParamNames == {"a", "b"}

\* the lines the handlers generate
GeneratedTexts ==
    {apexParamLine(p) : p \in ParamNames}
    \cup {jsParamLine(p, i) : p \in ParamNames, i \in 1..2}
    \cup {returnsLine2, returnsLine3}

\* lines of templates (snippet bodies)
TemplatePool == {"/**", " * @description", " * @param x", " * @returns", " * @example", " */"}

\* `${folder}/${name}` for the folders and names the handlers ask for
SnippetKeys ==
    {"ApexDoc/class", "ApexDoc/method", "ApexDoc/property", "ApexDoc/enumValue",
     "JSDoc/file", "JSDoc/variable", "JSDoc/functions", "JSDoc/method"}

\* the body of snippets/<folder>/<name>.json in two editions of the snippet
\* files: an ordered sequence of template lines with placeholder markers
SnippetBody(edition, key) ==
    CASE key = "JSDoc/file" ->
           <<"/**", " * @file ${1:name}", " */">>
      [] key = "JSDoc/variable" ->
           <<"/**", " * @type {${1:any}} ${2:description}", " */">>
      [] key = "JSDoc/functions" ->
           IF edition = 1
           THEN <<"/**", " * @description ${1:description}", " */">>
           ELSE <<"/**", " * @description ${1:description}", " * @param x",
                  " * @example", " */">>
      [] key = "JSDoc/method" ->
           IF edition = 1
           THEN <<"/**", " * @description ${1:description}", " * @returns", " */">>
           ELSE <<"/**", " * @description ${1:description}", " */">>
      [] key = "ApexDoc/method" ->
           IF edition = 1
           THEN <<"/**", " * @description ${1:description}", " * @param x", " */">>
           ELSE <<"/**", " * @description ${1:description}", " */">>
      [] OTHER ->
           <<"/**", " * @description ${1:description}", " */">>

Editions == {1, 2}

\* the length of the run of digits of s from position i
RECURSIVE digitsFrom(_, _)
digitsFrom(s, i) ==
    IF i <= Len(s) /\ CharAt(s, i) \in Digits THEN 1 + digitsFrom(s, i + 1) ELSE 0

\* the text a placeholder at the head of s stands for, and what follows it:
\* ${n:text} gives text, ${n} gives nothing
placeholderAt(s, n) ==
    LET close == indexOf(SubSeq(s, 3 + n, Len(s)), "}")
    IN IF n = 0 \/ close = 0 THEN [found |-> FALSE, text |-> "", rest |-> s]
       ELSE IF close = 1
       THEN [found |-> TRUE, text |-> "", rest |-> SubSeq(s, 3 + n + 1, Len(s))]
       ELSE IF CharAt(s, 3 + n) = ":"
       THEN [found |-> TRUE, text |-> SubSeq(s, 4 + n, 1 + n + close),
             rest |-> SubSeq(s, 3 + n + close, Len(s))]
       ELSE [found |-> FALSE, text |-> "", rest |-> s]

\* the text editor.insertSnippet puts in for a line of a SnippetString: every
\* placeholder replaced by its default text
RECURSIVE expandSnippet(_)
expandFrom(s, ph) ==
    IF ph.found THEN ph.text \o expandSnippet(ph.rest)
    ELSE CharAt(s, 1) \o expandSnippet(SubSeq(s, 2, Len(s)))

expandSnippet(s) ==
    IF s = "" THEN ""
    ELSE expandFrom(s, IF startsWith(s, "${") THEN placeholderAt(s, digitsFrom(s, 3))
                       ELSE [found |-> FALSE, text |-> "", rest |-> s])

\* String.prototype.replace with a string pattern: the first occurrence
replace(s, pattern, replacement) ==
    LET k == indexOf(s, pattern)
    IN IF k = 0 THEN s
       ELSE SubSeq(s, 1, k - 1) \o replacement \o SubSeq(s, k + Len(pattern), Len(s))

\* l.replace("{${1:any}}", `{${type}}`).replace("{any}", `{${type}}`)
withType(l, type) ==
    replace(replace(l, "{${1:any}}", "{" \o type \o "}"), "{any}", "{" \o type \o "}")

\* lines of the documents completions are asked in: the lines of a block
\* comment, and the declarations under it
CommentPool == {"/**", "", "@", " * @param a", " */"}

ApexDeclPool == {"x = 1;", "void bar() {", "public class Foo {", "public Foo(Integer a) {",
                 "public String name { get; set; }", "RED,"}

JsDeclPool == {"// c", "function foo(a, b) {", "const x = 1;", "class Foo {", "foo = 1;",
               "foo(a) {"}

ApexCompletionPool == CommentPool \cup ApexDeclPool \cup {"enum Color {"}

JsCompletionPool == CommentPool \cup JsDeclPool

\* lines of the documents the generate commands run on
ApexGenPool == {"", "@AuraEnabled", "public class Foo {", "void foo(Integer a, String b) {",
                "void bar() {", "enum Color {", "RED,", "public String name { get; set; }",
                "public Foo(Integer a) {"}

JsGenPool == {"", "// c", "({", "@api", "function foo(a, b) {", "function foo() {",
              "const x = 1;", "class Foo {", "foo = 1;", "foo(a) {", "#!x"}

\* the types inferJsVariableType gives for the lines above, and "any"
GenTypes == {"any", "number"}

\* the lines a generate command can put into a document: the expanded lines
\* of the templates and of the generated lines, and the declaration lines
\* that a snippet without a final line break ends up in front of
InsertedTexts ==
    LET bodies == {SnippetBody(e, k) : e \in Editions, k \in SnippetKeys}
        typed == {withType(SnippetBody(e, "JSDoc/variable")[i], ty) :
                     e \in Editions, i \in 1..3, ty \in GenTypes}
        lastTyped == {withType(SnippetBody(e, "JSDoc/variable")[3], ty) :
                         e \in Editions, ty \in GenTypes}
    IN {expandSnippet(l) : l \in UNION {{b[i] : i \in DOMAIN b} : b \in bodies}
                                 \cup typed \cup GeneratedTexts}
       \cup {expandSnippet(l) \o v : l \in lastTyped, v \in JsGenPool}

Texts ==
    ApexPool \cup JsPool \cup ApexSigPool \cup JsSigPool \cup TopPool \cup BlockPool
    \cup TemplatePool \cup GeneratedTexts
    \cup ApexGenPool \cup JsGenPool \cup ApexCompletionPool \cup JsCompletionPool
    \cup UNION {{SnippetBody(e, k)[i] : i \in DOMAIN SnippetBody(e, k)} :
                   e \in Editions, k \in SnippetKeys}
    \cup InsertedTexts

\* t = stripLineComments(text); <pattern>.test(t), for each pattern of apexKindAtLine
matchesEnumValue == [text \in Texts |-> Test(ReEnumValue, stripLineComments(text))]

matchesMethod == [text \in Texts |-> TestI(ReMethod, stripLineComments(text))]

matchesClass == [text \in Texts |-> TestI(ReClass, stripLineComments(text))]

matchesProperty == [text \in Texts |-> TestI(ReProperty, stripLineComments(text))]

\* the two tests of isInsideEnumBlock: "class", "enum" or "none"
blockMarkOf(txt) ==
    IF TestI(ReClassOrInterfaceWord, txt) THEN "class"
    ELSE IF TestI(ReEnumDecl, txt) THEN "enum"
    ELSE "none"

blockMark == [text \in Texts |-> blockMarkOf(stripLineComments(text))]

\* the class name findEnclosingClassName reads from a line, "" when none
classNameOf == [text \in Texts |-> classNameIn(stripLineComments(text))]

ClassNames == {classNameOf[text] : text \in Texts} \ {""}

matchesCtor ==
    [p \in ClassNames \X Texts |-> TestI(ReCtor(p[1]), stripLineComments(p[2]))]

(***************************************************************************)
(* ApexHelpers.ts                                                          *)
(***************************************************************************)
\* a declaration site {kind, line}; NoSite stands for null
Site(k, l) == [kind |-> k, line |-> l]

NoSite == Site("null", -1)

\* the site with the highest / lowest line among the sites that have a kind
LastSite(sites) ==
    IF \A x \in sites : x.kind = "null" THEN NoSite
    ELSE CHOOSE x \in sites : x.kind # "null" /\ \A y \in sites : y.kind # "null" => y.line <= x.line

FirstSite(sites) ==
    IF \A x \in sites : x.kind = "null" THEN NoSite
    ELSE CHOOSE x \in sites : x.kind # "null" /\ \A y \in sites : y.kind # "null" => x.line <= y.line

\* s.startsWith("@")
startsWithAt(s) == startsWith(s, "@")

\* isAnnotationLine(text): text.trim().startsWith("@")
isAnnotationLine(text) == startsWithAt(trim(text))

\* s === "" || s.startsWith("@")
blankOrAt(s) == s = "" \/ startsWith(s, "@")

isAnnoOrBlank(text) == blankOrAt(trim(text))

\* isInsideEnumBlock, given the lines of its window that hold a mark: the
\* nearest one decides, and a class/interface word is tested first
nearestMarkIsEnum(d, marked) ==
    marked # {} /\ blockMark[lineAt(d, Highest(marked))] = "enum"

isInsideEnumBlock(d, line) ==
    nearestMarkIsEnum(d, {i \in Max(0, line - 200)..line : blockMark[lineAt(d, i)] # "none"})

\* findEnclosingClassName, given the lines of its window that declare a class
nearestClassName(d, named) ==
    IF named = {} THEN "" ELSE classNameOf[lineAt(d, Highest(named))]

\* "" stands for null
findEnclosingClassName(d, line) ==
    nearestClassName(d, {i \in Max(0, line - 400)..line : classNameOf[lineAt(d, i)] # ""})

\* the rules with the method rule tried before the constructor rule
apexKindOfText_MethodFirst(text, className, inEnum) ==
    IF matchesEnumValue[text] /\ inEnum THEN "enumValue"
    ELSE IF matchesMethod[text] THEN "method"
    ELSE IF className # "" /\ matchesCtor[<<className, text>>] THEN "constructor"
    ELSE IF matchesClass[text] THEN "class"
    ELSE IF matchesProperty[text] THEN "property"
    ELSE "null"

\* the rules of apexKindAtLine, in their order
apexKindOfText(text, className, inEnum) ==
    IF matchesEnumValue[text] /\ inEnum THEN "enumValue"
    ELSE IF className # "" /\ matchesCtor[<<className, text>>] THEN "constructor"
    ELSE IF matchesMethod[text] THEN "method"
    ELSE IF matchesClass[text] THEN "class"
    ELSE IF matchesProperty[text] THEN "property"
    ELSE "null"

apexKindAtLine(d, line) ==
    apexKindOfText(lineAt(d, line), findEnclosingClassName(d, line), isInsideEnumBlock(d, line))

\* isInsideAnnotationRun: the upward loop (at most 10 lines)
RECURSIVE upHasAnno(_, _, _)
upHasAnno(d, line, i) ==
    IF i < Max(0, line - 10) THEN FALSE
    ELSE IF ~isAnnoOrBlank(lineAt(d, i)) THEN FALSE
    ELSE isAnnotationLine(lineAt(d, i)) \/ upHasAnno(d, line, i - 1)

\* isInsideAnnotationRun: the downward loop (at most 10 lines)
RECURSIVE downHasAnno(_, _, _)
downHasAnno(d, line, i) ==
    IF i > Min(lineCount(d) - 1, line + 10) THEN FALSE
    ELSE IF ~isAnnoOrBlank(lineAt(d, i)) THEN FALSE
    ELSE isAnnotationLine(lineAt(d, i)) \/ downHasAnno(d, line, i + 1)

isInsideAnnotationRun(d, line) == upHasAnno(d, line, line) \/ downHasAnno(d, line, line)

\* the sites of the lines lo..hi, with kind "null" where no rule holds
apexSites(d, lo, hi) == {Site(apexKindAtLine(d, i), i) : i \in lo..hi}

\* findNextDeclDown: the first line at or after fromLine that is neither
\* blank nor an annotation (lineCount when there is none)
skipAnnoAndBlank(d, stops) == IF stops = {} THEN lineCount(d) ELSE Lowest(stops)

\* findNextDeclDown: the scan of at most 200 lines from line i on
declFrom(d, i) == FirstSite(apexSites(d, i, Min(lineCount(d) - 1, i + 200)))

findNextDeclDown(d, fromLine) ==
    declFrom(d, skipAnnoAndBlank(d, {j \in fromLine..(lineCount(d) - 1) :
                                        ~isAnnoOrBlank(lineAt(d, j))}))

\* an upward scan that starts above the focus line
apexScanUp_AboveFocus(d, fromLine) ==
    LastSite(apexSites(d, Max(0, fromLine - 200), fromLine - 1))

\* an upward scan that stops one line short of the window
apexScanUp_Short(d, fromLine) == LastSite(apexSites(d, Max(0, fromLine - 199), fromLine))

\* the upward scan of detectApexKindAndLine, the focus line included
apexScanUp(d, fromLine) == LastSite(apexSites(d, Max(0, fromLine - 200), fromLine))

\* a downward scan that reads one line beyond the window
apexScanDown_Wide(d, fromLine) ==
    FirstSite(apexSites(d, fromLine + 1, Min(lineCount(d) - 1, fromLine + 201)))

\* the downward scan of detectApexKindAndLine
apexScanDown(d, fromLine) ==
    FirstSite(apexSites(d, fromLine + 1, Min(lineCount(d) - 1, fromLine + 200)))

\* a locator that prefers the match below the focus line to the one above
firstHit_BelowFirst(downHit, upHit, belowHit) ==
    IF downHit # NoSite THEN downHit
    ELSE IF belowHit # NoSite THEN belowHit
    ELSE upHit

\* a locator without the forward scan past an annotation run
firstHit_NoRedirect(downHit, upHit, belowHit) ==
    IF upHit # NoSite THEN upHit ELSE belowHit

\* the first of the three results that is not null
firstHit(downHit, upHit, belowHit) ==
    IF downHit # NoSite THEN downHit
    ELSE IF upHit # NoSite THEN upHit
    ELSE belowHit

detectApexKindAndLine(d, fromLine) ==
    firstHit(IF isAnnotationLine(lineAt(d, fromLine)) \/ isInsideAnnotationRun(d, fromLine)
             THEN findNextDeclDown(d, fromLine) ELSE NoSite,
             apexScanUp(d, fromLine),
             apexScanDown(d, fromLine))

topOfAnnotations_AtStop(nonAnno) == IF nonAnno = {} THEN 0 ELSE Highest(nonAnno)

\* findTopOfAnnotationBlock: the second loop, from line i up over annotation lines;
\* Math.max(0, i + 1)
topOfAnnotations(nonAnno) == IF nonAnno = {} THEN 0 ELSE Highest(nonAnno) + 1

\* findTopOfAnnotationBlock: the first loop, from declLine - 1 up over blank lines
aboveBlanks(nonBlank) == IF nonBlank = {} THEN -1 ELSE Highest(nonBlank)

annotationsAbove_OverBlanks(d, i) ==
    topOfAnnotations({j \in 0..i : ~isAnnoOrBlank(lineAt(d, j))})

annotationsAbove(d, i) == topOfAnnotations({j \in 0..i : ~isAnnotationLine(lineAt(d, j))})

findTopOfAnnotationBlock_FromDeclaration(d, declLine) ==
    annotationsAbove(d, aboveBlanks({j \in 0..declLine : trim(lineAt(d, j)) # ""}))

findTopOfAnnotationBlock(d, declLine) ==
    annotationsAbove(d, aboveBlanks({j \in 0..(declLine - 1) : trim(lineAt(d, j)) # ""}))

(***************************************************************************)
(* The JS/TS grammar (JSHelpers).                                          *)
(***************************************************************************)
\* /^\s*export\s+default\s+class\s+[A-Za-z_]\w*/
ReJsExportClass ==
    Cat(<<Bol, Star(Sp), Lit("export"), Plus(Sp), Lit("default"), Plus(Sp),
          Lit("class"), Plus(Sp), ReIdent>>)

\* /^\s*class\s+[A-Za-z_]\w*/
ReJsClass == Cat(<<Bol, Star(Sp), Lit("class"), Plus(Sp), ReIdent>>)

\* /^\s*[A-Za-z_]\w*\s*\([^)]*\)\s*\{/
ReJsMethodShorthand ==
    Cat(<<Bol, Star(Sp), ReIdent, Star(Sp), Lit("("), Star(NotCh({")"})), Lit(")"),
          Star(Sp), Lit("{")>>)

\* /^\s*[A-Za-z_]\w*\s*:\s*function\s*\(/
ReJsAuraMethod ==
    Cat(<<Bol, Star(Sp), ReIdent, Star(Sp), Lit(":"), Star(Sp), Lit("function"),
          Star(Sp), Lit("(")>>)

\* /^\s*export\s+function\s+[A-Za-z_]\w*\s*\(/
ReJsExportFunction ==
    Cat(<<Bol, Star(Sp), Lit("export"), Plus(Sp), Lit("function"), Plus(Sp), ReIdent,
          Star(Sp), Lit("(")>>)

\* /^\s*function\s+[A-Za-z_]\w*\s*\(/
ReJsFunction ==
    Cat(<<Bol, Star(Sp), Lit("function"), Plus(Sp), ReIdent, Star(Sp), Lit("(")>>)

\* /^\s*const\s+[A-Za-z_]\w*\s*=\s*\(/
ReJsConstArrow ==
    Cat(<<Bol, Star(Sp), Lit("const"), Plus(Sp), ReIdent, Star(Sp), Lit("="), Star(Sp),
          Lit("(")>>)

\* /^\s*const\s+[A-Za-z_]\w*\s*=\s*async\s*\(/
ReJsConstAsync ==
    Cat(<<Bol, Star(Sp), Lit("const"), Plus(Sp), ReIdent, Star(Sp), Lit("="), Star(Sp),
          Lit("async"), Star(Sp), Lit("(")>>)

\* /^\s*const\s+[A-Za-z_]\w*\s*=\s*\w*\s*=>\s*\(/
ReJsConstCurried ==
    Cat(<<Bol, Star(Sp), Lit("const"), Plus(Sp), ReIdent, Star(Sp), Lit("="), Star(Sp),
          Star(Set(WordCh)), Star(Sp), Lit("=>"), Star(Sp), Lit("(")>>)

\* /^\s*(const|let|var)\s+[A-Za-z_]\w*\s*([=:]|$)/
ReJsVariable ==
    Cat(<<Bol, Star(Sp), Alt(<<Lit("const"), Lit("let"), Lit("var")>>), Plus(Sp), ReIdent,
          Star(Sp), Alt(<<Set({"=", ":"}), Eol>>)>>)

\* /^\s*(public|private|protected)?\s*[A-Za-z_]\w*\s*[:=]\s*/
ReJsProperty ==
    Cat(<<Bol, Star(Sp), Opt(Alt(<<Lit("public"), Lit("private"), Lit("protected")>>)),
          Star(Sp), ReIdent, Star(Sp), Set({":", "="}), Star(Sp)>>)

jsKindAtLine(text) ==
    LET t == stripLineComments(text)
    IN IF Test(ReJsExportClass, t) \/ Test(ReJsClass, t) THEN "jsClass"
       ELSE IF Test(ReJsMethodShorthand, t) THEN "jsMethod"
       ELSE IF Test(ReJsAuraMethod, t) THEN "jsMethod"
       ELSE IF \/ Test(ReJsExportFunction, t)
               \/ Test(ReJsFunction, t)
               \/ Test(ReJsConstArrow, t)
               \/ Test(ReJsConstAsync, t)
               \/ Test(ReJsConstCurried, t) THEN "jsFunction"
       ELSE IF Test(ReJsVariable, t) THEN "jsVariable"
       ELSE IF Test(ReJsProperty, t) THEN "jsProperty"
       ELSE "null"

\* jsKindAtLine of every text, computed once
jsKindTable == [text \in Texts |-> jsKindAtLine(text)]

\* the sites of the lines lo..hi, with kind "null" where no rule holds
jsSites(d, lo, hi) == {Site(jsKindTable[lineAt(d, i)], i) : i \in lo..hi}

\* the upward scan of detectJsKindAndLine, the focus line included
jsScanUp(d, fromLine) == LastSite(jsSites(d, Max(0, fromLine - 200), fromLine))

\* the downward scan of detectJsKindAndLine
jsScanDown(d, fromLine) ==
    FirstSite(jsSites(d, fromLine + 1, Min(lineCount(d) - 1, fromLine + 200)))

detectJsKindAndLine(d, fromLine) ==
    firstHit(NoSite, jsScanUp(d, fromLine), jsScanDown(d, fromLine))

(***************************************************************************)
(* Signature reassembly: ApexHelpers.getApexParams with                    *)
(* locateApexSignatureStart, and JSHelpers.getJsParams.  A parameter list  *)
(* is a sequence of names.                                                 *)
(***************************************************************************)
\* stripLineComments(doc.lineAt(i).text)
strippedLine == [text \in Texts |-> stripLineComments(text)]

\* /\)\s*[{;]/
ReSigClose == Cat(<<Lit(")"), Star(Sp), Set({"{", ";"})>>)

\* /\)\s*[{;]/.test(lineText)
closesSignature == [text \in Texts |-> Test(ReSigClose, stripLineComments(text))]

\* tx.includes(")")
hasCloseParen == [text \in Texts |-> includes(stripLineComments(text), ")")]

\* /\(([^)]*)\)/
ReParamList == Cat(<<Lit("("), Star(NotCh({")"})), Lit(")")>>)

\* m[1] of the match that starts at start; "" when there is no match (start = 0):
\* both a null match and an empty blob make the callers return []
captureAt(sig, start) ==
    IF start = 0 THEN ""
    ELSE SubSeq(sig, start + 1, Highest(MatchEnds(ReParamList, sig, start)) - 2)

\* const m = sig.match(/\(([^)]*)\)/); if (!m) return []; const blob = m[1].trim()
paramBlob(sig) == trim(captureAt(sig, MatchStart(ReParamList, sig)))

RECURSIVE split(_, _)
splitAt(s, sep, k) ==
    IF k = 0 THEN <<s>>
    ELSE <<SubSeq(s, 1, k - 1)>> \o split(SubSeq(s, k + Len(sep), Len(s)), sep)

\* String.prototype.split with a string separator
split(s, sep) == splitAt(s, sep, indexOf(s, sep))

\* s.replace(/[cs]/g, "")
RECURSIVE dropChars(_, _)
dropChars(s, cs) ==
    IF Len(s) = 0 THEN ""
    ELSE (IF CharAt(s, 1) \in cs THEN "" ELSE CharAt(s, 1))
         \o dropChars(SubSeq(s, 2, Len(s)), cs)

\* s.replace(/[^A-Za-z0-9_]/g, "")
RECURSIVE keepWordChars(_)
keepWordChars(s) ==
    IF Len(s) = 0 THEN ""
    ELSE (IF CharAt(s, 1) \in WordCh THEN CharAt(s, 1) ELSE "")
         \o keepWordChars(SubSeq(s, 2, Len(s)))

\* .map((s) => s.trim())
mapTrim(xs) == [i \in DOMAIN xs |-> trim(xs[i])]

filterBoolean_Unique(xs) ==
    LET firsts == {i \in DOMAIN xs : xs[i] # "" /\ \A j \in 1..(i - 1) : xs[j] # xs[i]}
    IN [k \in 1..Cardinality(firsts) |->
           xs[CHOOSE i \in firsts : Cardinality({j \in firsts : j <= i}) = k]]

\* .filter(Boolean)
filterBoolean(xs) == SelectSeq(xs, LAMBDA x : x # "")

\* the text after the last white space of p, given the white-space positions
afterLast(p, ws) == IF ws = {} THEN p ELSE SubSeq(p, Highest(ws) + 1, Len(p))

\* const parts = p.split(/\s+/); const last = parts[parts.length - 1] || ""
lastToken(p) == afterLast(p, {i \in 1..Len(p) : CharAt(p, i) \in SpaceCh})

\* the text before the first white space of p
beforeFirst(p, ws) == IF ws = {} THEN p ELSE SubSeq(p, 1, Lowest(ws) - 1)

apexParamName_FirstToken(p) ==
    keepWordChars(beforeFirst(p, {i \in 1..Len(p) : CharAt(p, i) \in SpaceCh}))

\* (p) => { ...; return last.replace(/[^A-Za-z0-9_]/g, ""); }
apexParamName(p) == keepWordChars(lastToken(p))

mapApexParamName(xs) == [i \in DOMAIN xs |-> apexParamName(xs[i])]

\* if (!blob) return []; return blob.split(",").map(trim).filter(Boolean).map(...).filter(Boolean)
apexParamNames(blob) ==
    IF blob = "" THEN <<>>
    ELSE filterBoolean(mapApexParamName(filterBoolean(mapTrim(split(blob, ",")))))

\* the test of locateApexSignatureStart on line i
isSigStart(d, i, kind, className) ==
    IF kind = "constructor"
    THEN className # "" /\ matchesCtor[<<className, lineAt(d, i)>>]
    ELSE kind = "method" /\ matchesMethod[lineAt(d, i)]

sigStarts(d, lo, hi, kind, className) ==
    {i \in lo..hi : isSigStart(d, i, kind, className)}

\* a search that tries the lines below the declaration line first
firstStart_DownFirst(ups, downs) ==
    IF downs # {} THEN Lowest(downs)
    ELSE IF ups # {} THEN Highest(ups)
    ELSE -1

\* the first hit of the upward loop, else the first of the downward loop, else -1
firstStart(ups, downs) ==
    IF ups # {} THEN Highest(ups)
    ELSE IF downs # {} THEN Lowest(downs)
    ELSE -1

sigStartIn(d, declLine, kind, className) ==
    firstStart(sigStarts(d, Max(0, declLine - 50), declLine, kind, className),
               sigStarts(d, declLine + 1, Min(lineCount(d) - 1, declLine + 50),
                         kind, className))

locateApexSignatureStart(d, declLine, kind) ==
    sigStartIn(d, declLine, kind, findEnclosingClassName(d, declLine))

\* the loop of getApexParams from line i with sig read so far: sig and ended
RECURSIVE apexSigFrom(_, _, _, _)
apexSigStep(d, i, max, sig) ==
    IF includes(sig, "(") /\ closesSignature[lineAt(d, i)]
    THEN [sig |-> sig, ended |-> TRUE]
    ELSE apexSigFrom(d, i + 1, max, sig)

apexSigFrom(d, i, max, sig) ==
    IF i > max THEN [sig |-> sig, ended |-> FALSE]
    ELSE apexSigStep(d, i, max, sig \o strippedLine[lineAt(d, i)] \o " ")

paramsOfSig_NoEndedCheck(read) == apexParamNames(paramBlob(read.sig))

\* if (!ended) return []; ... the names of the blob
paramsOfSig(read) ==
    IF ~read.ended THEN <<>> ELSE apexParamNames(paramBlob(read.sig))

getApexParamsFrom_FirstLineOnly(d, start) ==
    IF start = -1 THEN <<>>
    ELSE paramsOfSig(apexSigFrom(d, start, start, ""))

\* if (start === -1) return []; const max = Math.min(doc.lineCount - 1, start + 50); ...
getApexParamsFrom(d, start) ==
    IF start = -1 THEN <<>>
    ELSE paramsOfSig(apexSigFrom(d, start, Min(lineCount(d) - 1, start + 50), ""))

getApexParams(d, declLine, kind) ==
    getApexParamsFrom(d, locateApexSignatureStart(d, declLine, kind))

\* the loop of getJsParams from line i with sig read so far
RECURSIVE jsSigFrom(_, _, _, _)
jsSigStep(d, i, max, sig) ==
    IF hasCloseParen[lineAt(d, i)] THEN sig ELSE jsSigFrom(d, i + 1, max, sig)

jsSigFrom(d, i, max, sig) ==
    IF i > max THEN sig
    ELSE jsSigStep(d, i, max, sig \o strippedLine[lineAt(d, i)] \o " ")

\* p.replace(/=.*$/, "")
dropDefault(p) == split(p, "=")[1]

\* the four maps of getJsParams applied to one segment
jsParamName(p) ==
    keepWordChars(trim(split(dropChars(dropDefault(p), {"{", "}", "[", "]"}), ":")[1]))

mapJsParamName(xs) == [i \in DOMAIN xs |-> jsParamName(xs[i])]

jsParamNames(blob) ==
    IF blob = "" THEN <<>>
    ELSE filterBoolean(mapJsParamName(filterBoolean(mapTrim(split(blob, ",")))))

getJsParams(d, declLine) ==
    jsParamNames(paramBlob(jsSigFrom(d, declLine, Min(lineCount(d) - 1, declLine + 10), "")))

(***************************************************************************)
(* SharedHelpers.insideDocBlock, and the earlier variant of it kept in     *)
(* ApexHandler.ts.                                                         *)
(***************************************************************************)
\* t.includes("/**")
hasOpener == [text \in Texts |-> includes(text, "/**")]

\* t.includes("*/")
hasCloser == [text \in Texts |-> includes(text, "*/")]

\* /^\s*\*/
ReStarLine == Cat(<<Bol, Star(Sp), Lit("*")>>)

startsStar == [text \in Texts |-> Test(ReStarLine, text)]

\* /^\s*\/?\*/
ReCommentText == Cat(<<Bol, Star(Sp), Opt(Lit("/")), Lit("*")>>)

\* t.trim() !== "" && !/^\s*\/?\*/.test(t)
isRealCode == [text \in Texts |-> trim(text) # "" /\ ~Test(ReCommentText, text)]

walkVerdict_OpenerFirst(d, deciding) ==
    deciding # {} /\ hasOpener[lineAt(d, Highest(deciding))]

\* the verdict of the walk up at the nearest deciding line, FALSE when there is none
walkVerdict(d, deciding) ==
    IF deciding = {} THEN FALSE
    ELSE ~hasCloser[lineAt(d, Highest(deciding))] /\ hasOpener[lineAt(d, Highest(deciding))]

\* a walk up that passes over real code
walkUp_MarkersOnly(d, line) ==
    walkVerdict(d, {i \in Max(0, line - 80)..line :
                       hasCloser[lineAt(d, i)] \/ hasOpener[lineAt(d, i)]})

\* for (let i = line; i >= start; i--) { closer -> false; opener -> true; code -> false }
walkUp(d, line) ==
    walkVerdict(d, {i \in Max(0, line - 80)..line :
                       hasCloser[lineAt(d, i)] \/ hasOpener[lineAt(d, i)]
                       \/ isRealCode[lineAt(d, i)]})

insideDocBlock(d, line) ==
    \/ hasOpener[lineAt(d, line)]
    \/ startsStar[lineAt(d, line)]
    \/ walkUp(d, line)

\* trimmed.startsWith("/**") || trimmed.startsWith("*")
startsOpenerOrStar ==
    [text \in Texts |-> startsWith(trim(text), "/**") \/ startsWith(trim(text), "*")]

walkUpEarlier(d, line) ==
    walkVerdict(d, {i \in Max(0, line - 100)..line :
                       hasCloser[lineAt(d, i)] \/ hasOpener[lineAt(d, i)]})

insideDocBlockEarlier(d, line) ==
    \/ startsOpenerOrStar[lineAt(d, line)]
    \/ walkUpEarlier(d, line)

(***************************************************************************)
(* The lines of the document that the Apex pipeline reads with doc.lineAt: *)
(* for each function the set of the line numbers it asks for and the       *)
(* number of reads it makes, loop by loop as the code runs them.           *)
(***************************************************************************)
NoReads == [lines |-> {}, count |-> 0]

\* a loop that reads each line of range once
loopReads(range) == [lines |-> range, count |-> Cardinality(range)]

both(a, b) == [lines |-> a.lines \cup b.lines, count |-> a.count + b.count]

\* the lines lo..hi of the document on which test holds
linesWhere(d, lo, hi, test(_)) == {i \in Max(lo, 0)..Min(hi, lineCount(d) - 1) : test(i)}

\* the last line a loop reads: the first one it stops at, else the end of its range
lastOf(stops, to) == IF stops = {} THEN to ELSE Highest(stops)

firstOf(stops, to) == IF stops = {} THEN to ELSE Lowest(stops)

\* for (i = from; i >= to; i--) { read line i; if (stop(i)) leave }
downLoop(d, from, to, stop(_)) == loopReads(lastOf(linesWhere(d, to, from, stop), to)..from)

\* for (i = from; i <= to; i++) { read line i; if (stop(i)) leave }
upLoop(d, from, to, stop(_)) == loopReads(from..firstOf(linesWhere(d, from, to, stop), to))

\* isInsideEnumBlock: for (let i = line; i >= 0 && i >= line - 200; i--)
enumBlockReads(d, line) ==
    downLoop(d, line, Max(0, line - 200), LAMBDA i : blockMark[lineAt(d, i)] # "none")

\* findEnclosingClassName: for (let i = line; i >= 0 && i >= line - 400; i--)
classNameReads(d, line) ==
    downLoop(d, line, Max(0, line - 400), LAMBDA i : classNameOf[lineAt(d, i)] # "")

\* apexKindAtLine: the line itself, isInsideEnumBlock when the enum-value
\* pattern matches, findEnclosingClassName unless "enumValue" was returned
apexKindReads(d, line) ==
    both(loopReads({line}),
         both(IF matchesEnumValue[lineAt(d, line)] THEN enumBlockReads(d, line) ELSE NoReads,
              IF matchesEnumValue[lineAt(d, line)] /\ isInsideEnumBlock(d, line)
              THEN NoReads ELSE classNameReads(d, line)))

\* doc.lineAt(line) of apexKindAtLine throws for a line that is not in the document
apexKindReadsAt(d, line) ==
    IF line \in 0..(lineCount(d) - 1) THEN apexKindReads(d, line) ELSE loopReads({line})

\* apexKindAtLine on each line of lo..hi (summed by halves)
RECURSIVE apexKindReadsOver(_, _, _)
apexKindReadsOver(d, lo, hi) ==
    IF lo > hi THEN NoReads
    ELSE IF lo = hi THEN apexKindReadsAt(d, lo)
    ELSE both(apexKindReadsOver(d, lo, (lo + hi) \div 2),
              apexKindReadsOver(d, (lo + hi) \div 2 + 1, hi))

\* the lines of lo..hi where apexKindAtLine gives a kind
apexHits(d, lo, hi) == linesWhere(d, lo, hi, LAMBDA i : apexKindAtLine(d, i) # "null")

\* a scan for (i = from; i >= up; i--) that returns at the first kind found
scanUpTo(d, from, up) == apexKindReadsOver(d, lastOf(apexHits(d, up, from), up), from)

\* a scan for (i = from; i <= down; i++) that returns at the first kind found
scanDownTo(d, from, down) == apexKindReadsOver(d, from, firstOf(apexHits(d, from, down), down))

\* isInsideAnnotationRun: both loops run to their first line that is
\* neither blank nor an annotation
annotationRunReads(d, line) ==
    both(downLoop(d, line, Max(0, line - 10), LAMBDA i : ~isAnnoOrBlank(lineAt(d, i))),
         upLoop(d, line, Min(lineCount(d) - 1, line + 10),
                LAMBDA i : ~isAnnoOrBlank(lineAt(d, i))))

\* a scan without Math.min(doc.lineCount - 1, ...)
declScanReads_Unclamped(d, i) == scanDownTo(d, i, i + 200)

\* findNextDeclDown: for (let l = i; l <= limit; l++)
declScanReads(d, i) == scanDownTo(d, i, Min(lineCount(d) - 1, i + 200))

\* findNextDeclDown: while (i < doc.lineCount), then the scan from i
nextDeclReads(d, fromLine) ==
    both(upLoop(d, fromLine, lineCount(d) - 1, LAMBDA j : ~isAnnoOrBlank(lineAt(d, j))),
         declScanReads(d, skipAnnoAndBlank(d, {j \in fromLine..(lineCount(d) - 1) :
                                                 ~isAnnoOrBlank(lineAt(d, j))})))

\* detectApexKindAndLine after its first if: the two scans
scansReads(d, fromLine) ==
    both(scanUpTo(d, fromLine, Max(0, fromLine - 200)),
         IF apexScanUp(d, fromLine) # NoSite THEN NoReads
         ELSE scanDownTo(d, fromLine + 1, Min(lineCount(d) - 1, fromLine + 200)))

\* detectApexKindAndLine, given whether the focus line is on an annotation run
detectReadsWhen(d, fromLine, onRun) ==
    both(both(loopReads({fromLine}),
              IF isAnnotationLine(lineAt(d, fromLine)) THEN NoReads
              ELSE annotationRunReads(d, fromLine)),
         both(IF onRun THEN nextDeclReads(d, fromLine) ELSE NoReads,
              IF onRun /\ findNextDeclDown(d, fromLine) # NoSite THEN NoReads
              ELSE scansReads(d, fromLine)))

detectApexReads(d, fromLine) ==
    detectReadsWhen(d, fromLine,
                    isAnnotationLine(lineAt(d, fromLine)) \/ isInsideAnnotationRun(d, fromLine))

\* locateApexSignatureStart: findEnclosingClassName, then the two loops
sigStartReads(d, declLine, kind, className) ==
    both(classNameReads(d, declLine),
         both(downLoop(d, declLine, Max(0, declLine - 50),
                       LAMBDA i : isSigStart(d, i, kind, className)),
              IF sigStarts(d, Max(0, declLine - 50), declLine, kind, className) # {}
              THEN NoReads
              ELSE upLoop(d, declLine + 1, Min(lineCount(d) - 1, declLine + 50),
                          LAMBDA i : isSigStart(d, i, kind, className))))

\* getApexParams: for (let i = start; i <= max; i++), left at the line that
\* closes the signature once sig holds "("
sigLoopReads(d, start) ==
    IF start = -1 THEN NoReads
    ELSE upLoop(d, start, Min(lineCount(d) - 1, start + 50),
                LAMBDA i : /\ closesSignature[lineAt(d, i)]
                           /\ \E j \in start..i : includes(strippedLine[lineAt(d, j)], "("))

getApexParamsReads(d, declLine, kind) ==
    both(sigStartReads(d, declLine, kind, findEnclosingClassName(d, declLine)),
         sigLoopReads(d, locateApexSignatureStart(d, declLine, kind)))

\* findTopOfAnnotationBlock: the loop over blank lines, then the loop over
\* annotation lines from the line the first loop stopped at
topReads(d, declLine) ==
    both(downLoop(d, declLine - 1, 0, LAMBDA j : trim(lineAt(d, j)) # ""),
         downLoop(d, aboveBlanks({j \in 0..(declLine - 1) : trim(lineAt(d, j)) # ""}), 0,
                  LAMBDA j : ~isAnnotationLine(lineAt(d, j))))

(***************************************************************************)
(* The template patch engine: ApexHelpers.replaceOrInjectApexParams,       *)
(* JSHelpers.replaceOrInjectJsParamsAndReturns and ensureReturnsInJSDoc.   *)
(* A template is a sequence of lines.                                      *)
(***************************************************************************)
\* line.trim().startsWith("* @param")
isApexParamMarker == [text \in Texts |-> startsWith(trim(text), "* @param")]

\* line.trim().startsWith("* @description")
isApexDescMarker == [text \in Texts |-> startsWith(trim(text), "* @description")]

\* ^\*?\s*@<tag>\b
ReTag(tag) == Cat(<<Bol, Opt(Lit("*")), Star(Sp), Lit("@" \o tag), WordB>>)

\* ^\s*\*\s*@<tag>\b
ReStarTag(tag) == Cat(<<Bol, Star(Sp), Lit("*"), Star(Sp), Lit("@" \o tag), WordB>>)

\* /^\*?\s*@param\b/.test(trimmed)
isJsParamMarker == [text \in Texts |-> Test(ReTag("param"), trim(text))]

\* /^\s*\*\s*@description\b/.test(line)
isJsDescMarker == [text \in Texts |-> Test(ReStarTag("description"), text)]

\* l.trim().match(/^\*?\s*@returns\b/)
isReturnsMarker == [text \in Texts |-> Test(ReTag("returns"), trim(text))]

\* l.trim().match(/^\*\s*@example\b/)
isExampleMarker == [text \in Texts |-> Test(ReStarTag("example"), trim(text))]

\* lines.some(test)
some(lines, test) == \E i \in DOMAIN lines : test[lines[i]]

RECURSIVE replaceLoop_EveryMarker(_, _, _, _)
replaceLoop_EveryMarker(lines, generated, marker, replaced) ==
    IF lines = <<>> THEN <<>>
    ELSE (IF marker[Head(lines)] THEN generated ELSE <<Head(lines)>>)
         \o replaceLoop_EveryMarker(Tail(lines), generated, marker, replaced)

RECURSIVE replaceLoop_KeepOthers(_, _, _, _)
replaceLoop_KeepOthers(lines, generated, marker, replaced) ==
    IF lines = <<>> THEN <<>>
    ELSE IF marker[Head(lines)] /\ ~replaced
    THEN generated \o replaceLoop_KeepOthers(Tail(lines), generated, marker, TRUE)
    ELSE <<Head(lines)>> \o replaceLoop_KeepOthers(Tail(lines), generated, marker, replaced)

\* the first loop: out, given the lines still to visit and the flag replaced
RECURSIVE replaceLoop(_, _, _, _)
replaceLoop(lines, generated, marker, replaced) ==
    IF lines = <<>> THEN <<>>
    ELSE IF marker[Head(lines)]
    THEN (IF replaced THEN <<>> ELSE generated)
         \o replaceLoop(Tail(lines), generated, marker, TRUE)
    ELSE <<Head(lines)>> \o replaceLoop(Tail(lines), generated, marker, replaced)

RECURSIVE injectLoop_EveryDescription(_, _, _, _)
injectLoop_EveryDescription(out, generated, desc, didInject) ==
    IF out = <<>> THEN <<>>
    ELSE <<Head(out)>>
         \o (IF desc[Head(out)] THEN generated ELSE <<>>)
         \o injectLoop_EveryDescription(Tail(out), generated, desc, didInject)

RECURSIVE injectLoop_ElseAtEnd(_, _, _, _)
injectLoop_ElseAtEnd(out, generated, desc, didInject) ==
    IF out = <<>> THEN (IF didInject THEN <<>> ELSE generated)
    ELSE <<Head(out)>>
         \o (IF ~didInject /\ desc[Head(out)] THEN generated ELSE <<>>)
         \o injectLoop_ElseAtEnd(Tail(out), generated, desc, didInject \/ desc[Head(out)])

\* the second loop: injected, given the lines of out still to visit and didInject
RECURSIVE injectLoop(_, _, _, _)
injectLoop(out, generated, desc, didInject) ==
    IF out = <<>> THEN <<>>
    ELSE <<Head(out)>>
         \o (IF ~didInject /\ desc[Head(out)] THEN generated ELSE <<>>)
         \o injectLoop(Tail(out), generated, desc, didInject \/ desc[Head(out)])

\* if (!replaced) { ...; return injected; } return out;
afterReplace(out, replaced, generated, desc) ==
    IF replaced THEN out ELSE injectLoop(out, generated, desc, FALSE)

replaceOrInjectApexParams(lines, generated) ==
    afterReplace(replaceLoop(lines, generated, isApexParamMarker, FALSE),
                 some(lines, isApexParamMarker), generated, isApexDescMarker)

\* result.findIndex(test), 0-based, -1 when no line passes
findIndex(lines, test) ==
    IF some(lines, test) THEN Lowest({i \in DOMAIN lines : test[lines[i]]}) - 1 ELSE -1

\* result.splice(idx, 0, line)
spliceIn(lines, idx, line) ==
    SubSeq(lines, 1, idx) \o <<line>> \o SubSeq(lines, idx + 1, Len(lines))

returnsIndex_AtEnd(result, idxExample) == Len(result)

\* idxExample !== -1 ? idxExample : Math.max(0, result.length - 1)
returnsIndex(result, idxExample) ==
    IF idxExample # -1 THEN idxExample ELSE Max(0, Len(result) - 1)

\* the return-tag step shared by the two JS functions
withReturns(result, returnsLine) ==
    IF some(result, isReturnsMarker) THEN result
    ELSE spliceIn(result, returnsIndex(result, findIndex(result, isExampleMarker)),
                  returnsLine)

replaceOrInjectJsParamsAndReturns(lines, generatedParams) ==
    withReturns(afterReplace(replaceLoop(lines, generatedParams, isJsParamMarker, FALSE),
                             some(lines, isJsParamMarker), generatedParams, isJsDescMarker),
                returnsLine3)

ensureReturnsInJSDoc(lines) == withReturns(lines, returnsLine2)

(***************************************************************************)
(* The generate commands: loadSnippetBody with its cache, generateApexDoc  *)
(* (ApexHandler), generateJsDoc and generateJsFileHeader (JSHandler) and   *)
(* the LWC/Aura helpers.  An array is a record of the object it is (ref:   *)
(* the cached body or a fresh array) and of its lines.                     *)
(***************************************************************************)
\* a snippet file as JSON.parse gives it: json.body when that is an array,
\* else the body of the first entry of the object
SnippetFile(edition, key) ==
    IF edition = 1
    THEN [exists |-> TRUE, bodyIsArray |-> TRUE, body |-> SnippetBody(edition, key),
          first |-> <<>>]
    ELSE [exists |-> TRUE, bodyIsArray |-> FALSE, body |-> <<>>,
          first |-> SnippetBody(edition, key)]

NoFile == [exists |-> FALSE, bodyIsArray |-> FALSE, body |-> <<>>, first |-> <<>>]

\* Array.isArray(json.body) ? json.body : json[Object.keys(json)[0]].body
bodyOf(json) == IF json.bodyIsArray THEN json.body ELSE json.first

\* _snippetCache.set(key, body)
cacheSet(cache, key, body) ==
    [k \in DOMAIN cache \cup {key} |-> IF k = key THEN body ELSE cache[k]]

loadMiss_EmptyOnMissing(key, json, cache) ==
    [threw |-> FALSE, key |-> key, body |-> bodyOf(json),
     cache |-> cacheSet(cache, key, bodyOf(json))]

\* loadSnippetBody without a cache hit: fs.readFileSync throws when there is
\* no file, before the cache is written
loadMiss(key, json, cache) ==
    IF ~json.exists THEN [threw |-> TRUE, key |-> key, body |-> <<>>, cache |-> cache]
    ELSE [threw |-> FALSE, key |-> key, body |-> bodyOf(json),
          cache |-> cacheSet(cache, key, bodyOf(json))]

\* const hit = _snippetCache.get(key); if (hit) return hit; ...
loadSnippetBody(folder, name, files, cache) ==
    LET key == folder \o "/" \o name
    IN IF key \in DOMAIN cache
       THEN [threw |-> FALSE, key |-> key, body |-> cache[key], cache |-> cache]
       ELSE loadMiss(key, files[key], cache)

\* the array loadSnippetBody returns is the array the cache holds
cached(lines) == [ref |-> "cached", lines |-> lines]

\* an array made by the callee (out, injected, lines.map(...))
fresh(lines) == [ref |-> "fresh", lines |-> lines]

copyRef_Same(ref) == ref

\* const result = [...lines]: the copy is another array
copyRef(ref) == "fresh"

\* ensureReturnsInJSDoc on an array: lines itself when it holds a return
\* line, else the copy the return line was spliced into
ensureReturnsArray(a) ==
    IF some(a.lines, isReturnsMarker) THEN a
    ELSE [ref |-> copyRef(a.ref), lines |-> ensureReturnsInJSDoc(a.lines)]

\* what the cache holds once the handler is done with the array a
writeBack(cache, key, a) ==
    IF a.ref = "cached" THEN [cache EXCEPT ![key] = a.lines] ELSE cache

\* the outcome of a handler that did nothing yet
Quiet(cache) ==
    [threw |-> FALSE, message |-> "", keys |-> <<>>, template |-> <<>>,
     snippet |-> <<>>, newline |-> FALSE, at |-> -1, header |-> FALSE,
     ran |-> FALSE, detected |-> NoSite, cache |-> cache, params |-> <<>>,
     steps |-> <<>>]

\* the calls of a handler in the order it made them: "lineAt", "detect",
\* "preamble", "header", "params", "infer" and "top" read the document,
\* "load" reads the cache (and on a miss the file, and writes the cache),
\* "patch" and "returns" work on the template, "insert" is
\* editor.insertSnippet and "report" is showInformationMessage
traced(outcome, steps) == [outcome EXCEPT !.steps = steps]

\* the calls made before the ones of the outcome
prefixed(steps, outcome) == [outcome EXCEPT !.steps = steps \o @]

loadThen_InsertFirst(load, steps) ==
    <<"load">> \o (IF load.threw THEN <<>> ELSE <<"insert">> \o steps)

\* the calls from loadSnippetBody on: the error of the load ends the handler
loadThen(load, steps) == <<"load">> \o (IF load.threw THEN <<>> ELSE steps \o <<"insert">>)

\* vscode.window.showInformationMessage(message); return
reported(message, detected, cache) ==
    [Quiet(cache) EXCEPT !.message = message, !.ran = TRUE, !.detected = detected]

\* editor.insertSnippet(new vscode.SnippetString(a.join("\n") [+ "\n"]),
\* new vscode.Position(at, 0)) after a load, or the error of the load
insertLoaded(load, a, newline, at) ==
    IF load.threw THEN [Quiet(load.cache) EXCEPT !.threw = TRUE, !.keys = <<load.key>>]
    ELSE [Quiet(writeBack(load.cache, load.key, a)) EXCEPT
             !.keys = <<load.key>>, !.template = load.body,
             !.snippet = a.lines, !.newline = newline, !.at = at]

located(outcome, detected) == [outcome EXCEPT !.ran = TRUE, !.detected = detected]

\* kind === "constructor" ? "method" : kind === "enumValue" ? "enumValue" : kind
apexSnippetName(kind) == IF kind = "constructor" THEN "method" ELSE kind

\* params.map((p) => `* @param ${p} description`)
apexGenerated(params) == [i \in DOMAIN params |-> apexParamLine(params[i])]

apexTakesParams_Always(kind) == TRUE

\* if (kind === "method" || kind === "constructor")
apexTakesParams(kind) == kind \in {"method", "constructor"}

\* lines of generateApexDoc after the parameter step
apexPatched(a, params) ==
    IF Len(params) > 0 THEN fresh(replaceOrInjectApexParams(a.lines, apexGenerated(params)))
    ELSE a

\* the calls of generateApexDoc after the detection
apexSteps(kind, load, params) ==
    loadThen(load, (IF apexTakesParams(kind) THEN <<"params">> ELSE <<>>)
                   \o (IF Len(params) > 0 THEN <<"patch">> ELSE <<>>)
                   \o <<"top">>)

\* generateApexDoc after loadSnippetBody, params being what getApexParams gave
apexDocWith(d, detected, load, params) ==
    [located(insertLoaded(load, apexPatched(cached(load.body), params), TRUE,
                          findTopOfAnnotationBlock(d, detected.line)),
             detected)
        EXCEPT !.params = IF load.threw THEN <<>> ELSE params,
               !.steps = <<"detect">> \o apexSteps(detected.kind, load, params)]

\* generateApexDoc from loadSnippetBody on
apexDocFor(d, detected, load) ==
    apexDocWith(d, detected, load,
                IF apexTakesParams(detected.kind)
                THEN getApexParams(d, detected.line, detected.kind)
                ELSE <<>>)

generateApexDocAt(d, detected, files, cache) ==
    IF detected = NoSite
    THEN traced(reported("ApexDoc: Could not detect a class/method/constructor/property/enum value here.",
                         detected, cache),
                <<"detect", "report">>)
    ELSE apexDocFor(d, detected,
                    loadSnippetBody("ApexDoc", apexSnippetName(detected.kind), files, cache))

generateApexDoc(d, h, files, cache) ==
    generateApexDocAt(d, detectApexKindAndLine(d, h), files, cache)

\* /^@(?:api|wire|track)\b/.test(doc.lineAt(i).text.trim())
isJsDecorator ==
    [text \in Texts |->
        Test(Cat(<<Bol, Lit("@"), Alt(<<Lit("api"), Lit("wire"), Lit("track")>>), WordB>>),
             trim(text))]

\* findTopOfJsDecoratorBlock: the second loop, from line i up over decorator lines
topOfDecorators(d, i) ==
    LET other == {j \in 0..i : ~isJsDecorator[lineAt(d, j)]}
    IN IF other = {} THEN 0 ELSE Highest(other) + 1

findTopOfJsDecoratorBlock(d, declLine) ==
    topOfDecorators(d, Highest({j \in 0..(declLine - 1) : trim(lineAt(d, j)) # ""} \cup {-1}))

\* /^\(\s*\{/.test(text.trim())
isAuraStart ==
    [text \in Texts |-> Test(Cat(<<Bol, Lit("("), Star(Sp), Lit("{")>>), trim(text))]

\* t === "" || t.startsWith("//")
isBlankOrLineComment == [text \in Texts |-> trim(text) = "" \/ startsWith(trim(text), "//")]

\* getAuraHelperPreambleInfo: where its loop stops, lineCount when every
\* line is blank or a line comment
firstCodeLine(d) ==
    Lowest({i \in (IF startsWith(lineAt(d, 0), "#!") THEN 1 ELSE 0)..(lineCount(d) - 1) :
               ~isBlankOrLineComment[lineAt(d, i)]}
           \cup {lineCount(d)})

\* doc.lineAt(i) throws for i = lineCount
preambleInfo(d, i) ==
    IF i >= lineCount(d) THEN [threw |-> TRUE, isAuraHelper |-> FALSE, firstCodeLine |-> i]
    ELSE [threw |-> FALSE, isAuraHelper |-> isAuraStart[lineAt(d, i)], firstCodeLine |-> i]

getAuraHelperPreambleInfo(d) == preambleInfo(d, firstCodeLine(d))

\* a line before beforeLine starts with the opener and only blank lines and
\* line comments come before it
hasLeadingJSDocHeader(d, beforeLine) ==
    \E i \in 0..(Min(beforeLine, lineCount(d)) - 1) :
        /\ startsWith(trim(lineAt(d, i)), "/**")
        /\ \A j \in 0..(i - 1) : isBlankOrLineComment[lineAt(d, j)]

\* /^\s*(const|let|var)\s+[A-Za-z_]\w*\s*:/, the head of the annotation pattern
ReTsAnnotation ==
    Cat(<<Bol, Star(Sp), Alt(<<Lit("const"), Lit("let"), Lit("var")>>), Plus(Sp),
          ReIdent, Star(Sp), Lit(":")>>)

\* s from position i up to the first character of stop
upTo(s, i, stop) ==
    SubSeq(s, i, Lowest({k \in i..Len(s) : CharAt(s, k) \in stop} \cup {Len(s) + 1}) - 1)

\* ann[2].trim() of text.match(/^\s*(const|let|var)\s+[A-Za-z_]\w*\s*:\s*([^=;]+)/),
\* given where the head ends; "" for no match
annotatedAt(text, ends) ==
    IF ends = {} THEN ""
    ELSE trim(upTo(text, Highest(ends), {"=", ";"}))

\* init[1].trim() of text.match(/=\s*(.+?)(;|$)/), r being the text after the
\* first "=": the shortest run after the white space that a ";" or the end follows
lazyRun(r, start) ==
    SubSeq(r, start, Lowest({j \in start..Len(r) : j = Len(r) \/ CharAt(r, j + 1) = ";"}))

initializerOf(r) ==
    IF r = "" THEN ""
    ELSE IF trimStart(r) = "" THEN ""
    ELSE trim(lazyRun(r, Len(r) - Len(trimStart(r)) + 1))

initializer(text, eq) == IF eq = 0 THEN "" ELSE initializerOf(SubSeq(text, eq + 1, Len(text)))

\* /^[+-]?(\d+(\.\d+)?|\.\d+)(e[+-]?\d+)?$/i
ReNumber ==
    Cat(<<Bol, Opt(Set({"+", "-"})),
          Alt(<<Cat(<<Plus(Set(Digits)), Opt(Cat(<<Lit("."), Plus(Set(Digits))>>))>>),
                Cat(<<Lit("."), Plus(Set(Digits))>>)>>),
          Opt(Cat(<<Lit("e"), Opt(Set({"+", "-"})), Plus(Set(Digits))>>)), Eol>>)

\* /^\(*[A-Za-z0-9_,\s\{\}\[\]]*\)*\s*=>/
ReArrow ==
    Cat(<<Bol, Star(Lit("(")), Star(Set(WordCh \cup SpaceCh \cup {",", "{", "}", "[", "]"})),
          Star(Lit(")")), Star(Sp), Lit("=>")>>)

\* /^new\s+([A-Za-z_]\w*)\s*\(/
ReNewCall == Cat(<<Bol, Lit("new"), Plus(Sp), ReIdent, Star(Sp), Lit("(")>>)

\* /^(['"]).*\1$/, /^\[.*\]$/, /^\{.*\}$/
wrappedIn(s, open, close) ==
    Len(s) >= 2 /\ CharAt(s, 1) = open /\ CharAt(s, Len(s)) = close

typeOfInitializer(rhs) ==
    IF wrappedIn(rhs, "'", "'") \/ wrappedIn(rhs, "\"", "\"") THEN "string"
    ELSE IF TestI(ReNumber, rhs) THEN "number"
    ELSE IF Test(Cat(<<Bol, Alt(<<Lit("true"), Lit("false")>>), WordB>>), rhs) THEN "boolean"
    ELSE IF wrappedIn(rhs, "[", "]") THEN "Array<any>"
    ELSE IF wrappedIn(rhs, "{", "}") THEN "Object"
    ELSE IF Test(Cat(<<Bol, Lit("function"), WordB>>), rhs) \/ Test(ReArrow, rhs)
    THEN "Function"
    ELSE IF Test(ReNewCall, rhs)
    THEN upTo(rhs, Highest(MatchEnds(Cat(<<Bol, Lit("new"), Plus(Sp)>>), rhs, 1)),
              {" ", "\t", "("})
    ELSE ""

\* inferJsVariableType on the text of the line, "" for null
inferTypeOf(text, ends) ==
    IF ends # {} /\ Highest(ends) <= Len(text) /\ CharAt(text, Highest(ends)) \notin {"=", ";"}
    THEN annotatedAt(text, ends)
    ELSE typeOfInitializer(initializer(text, indexOf(text, "=")))

inferJsVariableType(d, line) ==
    inferTypeOf(stripLineComments(lineAt(d, line)),
                MatchEnds(ReTsAnnotation, stripLineComments(lineAt(d, line)), 1))

\* lines.map((l) => l.replace("{${1:any}}", `{${type}}`).replace("{any}", `{${type}}`))
\* with type: inferJsVariableType(doc, declLine) || "any"
mapWithType(lines, type) ==
    [i \in DOMAIN lines |-> withType(lines[i], IF type = "" THEN "any" ELSE type)]

\* the file header of generateJsDoc and generateJsFileHeader
jsFileHeader(load) ==
    [insertLoaded(load, cached(load.body), TRUE, 0) EXCEPT
        !.header = ~load.threw, !.steps = loadThen(load, <<>>)]

\* params.map((p, i) => ` * @param {any} ${p} ...`)
jsGenerated(params) == [i \in DOMAIN params |-> jsParamLine(params[i], i)]

\* if (kind === "jsFunction" || kind === "jsMethod")
jsTakesParams(kind) == kind \in {"jsFunction", "jsMethod"}

\* lines of generateJsDoc after the parameter and return step
jsPatched(a, kind, params) ==
    IF ~jsTakesParams(kind) THEN a
    ELSE IF Len(params) > 0
    THEN fresh(replaceOrInjectJsParamsAndReturns(a.lines, jsGenerated(params)))
    ELSE ensureReturnsArray(a)

\* kind === "jsFunction" ? "functions" : "method"
jsBaseName(kind) == IF kind = "jsFunction" THEN "functions" ELSE "method"

jsVariableDoc(d, detected, load) ==
    traced(insertLoaded(load,
                        fresh(mapWithType(load.body, inferJsVariableType(d, detected.line))),
                        FALSE, detected.line),
           loadThen(load, <<"infer">>))

\* the calls of generateJsDoc for a declaration that is no variable
jsSteps(kind, load, params) ==
    loadThen(load, (IF ~jsTakesParams(kind) THEN <<>>
                    ELSE IF Len(params) > 0 THEN <<"params", "patch">>
                    ELSE <<"params", "returns">>)
                   \o <<"top">>)

\* generateJsDoc after loadSnippetBody, params being what getJsParams gave
jsDeclDocWith(d, detected, load, params) ==
    [insertLoaded(load, jsPatched(cached(load.body), detected.kind, params), TRUE,
                  findTopOfJsDecoratorBlock(d, detected.line))
        EXCEPT !.params = IF load.threw THEN <<>> ELSE params,
               !.steps = jsSteps(detected.kind, load, params)]

jsDeclDoc(d, detected, load) ==
    jsDeclDocWith(d, detected, load,
                  IF jsTakesParams(detected.kind) THEN getJsParams(d, detected.line)
                  ELSE <<>>)

jsNothingDetected_Anywhere(d, h, info, files, cache) ==
    IF info.threw THEN [Quiet(cache) EXCEPT !.threw = TRUE, !.steps = <<"preamble">>]
    ELSE IF info.isAuraHelper /\ ~hasLeadingJSDocHeader(d, info.firstCodeLine)
    THEN prefixed(<<"preamble", "header">>,
                  jsFileHeader(loadSnippetBody("JSDoc", "file", files, cache)))
    ELSE traced(reported("JSDoc: Could not detect a class/function/method/property/variable here.",
                         NoSite, cache),
                <<"preamble", "report">>)

\* generateJsDoc when nothing was detected; hasLeadingJSDocHeader is called
\* when the first two conjuncts hold
jsNothingDetected(d, h, info, files, cache) ==
    IF info.threw THEN [Quiet(cache) EXCEPT !.threw = TRUE, !.steps = <<"preamble">>]
    ELSE IF /\ info.isAuraHelper
            /\ h <= info.firstCodeLine
            /\ ~hasLeadingJSDocHeader(d, info.firstCodeLine)
    THEN prefixed(<<"preamble", "header">>,
                  jsFileHeader(loadSnippetBody("JSDoc", "file", files, cache)))
    ELSE traced(reported("JSDoc: Could not detect a class/function/method/property/variable here.",
                         NoSite, cache),
                <<"preamble">>
                \o (IF info.isAuraHelper /\ h <= info.firstCodeLine THEN <<"header">>
                    ELSE <<>>)
                \o <<"report">>)

\* generateJsDoc from the detection on
jsDocAt(d, h, detected, files, cache) ==
    prefixed(<<"detect">>, located(IF detected = NoSite
            THEN jsNothingDetected(d, h, getAuraHelperPreambleInfo(d), files, cache)
            ELSE IF detected.kind = "jsVariable"
            THEN jsVariableDoc(d, detected, loadSnippetBody("JSDoc", "variable", files, cache))
            ELSE jsDeclDoc(d, detected,
                           loadSnippetBody("JSDoc", jsBaseName(detected.kind), files, cache)),
            detected))

\* the test of the first branch of generateJsDoc; the line being a code line,
\* getAuraHelperPreambleInfo does not run off the document
onAuraStartWithoutHeader(d, h) ==
    /\ isAuraStart[lineAt(d, h)]
    /\ ~hasLeadingJSDocHeader(d, firstCodeLine(d))

\* the calls of generateJsDoc before the detection
jsFirstSteps(d, h) ==
    IF isAuraStart[lineAt(d, h)] THEN <<"lineAt", "preamble", "header">> ELSE <<"lineAt">>

generateJsDoc(d, h, files, cache) ==
    prefixed(jsFirstSteps(d, h),
             IF onAuraStartWithoutHeader(d, h)
             THEN jsFileHeader(loadSnippetBody("JSDoc", "file", files, cache))
             ELSE jsDocAt(d, h, detectJsKindAndLine(d, h), files, cache))

fileHeaderFor(d, info, files, cache) ==
    IF info.threw THEN [Quiet(cache) EXCEPT !.threw = TRUE, !.steps = <<"preamble">>]
    ELSE IF info.isAuraHelper /\ ~hasLeadingJSDocHeader(d, info.firstCodeLine)
    THEN prefixed(<<"preamble", "header">>,
                  jsFileHeader(loadSnippetBody("JSDoc", "file", files, cache)))
    ELSE [Quiet(cache) EXCEPT
             !.message = "File header already exists or this is not an Aura helper file.",
             !.steps = <<"preamble">>
                       \o (IF info.isAuraHelper THEN <<"header">> ELSE <<>>)
                       \o <<"report">>]

generateJsFileHeader(d, files, cache) ==
    fileHeaderFor(d, getAuraHelperPreambleInfo(d), files, cache)

\* the lines of the text of a SnippetString: an empty array joined and
\* followed by "\n" is one empty line
snippetLines(lines) ==
    [i \in DOMAIN lines |-> expandSnippet(lines[i])]

\* the document after editor.insertSnippet at (at, 0): with the final line
\* break the lines go in before line at, without it the last of them ends
\* up in front of the text of line at
insertSnippet(d, lines, newline, at) ==
    IF newline
    THEN SubSeq(d, 1, at) \o (IF lines = <<>> THEN <<"">> ELSE lines)
         \o SubSeq(d, at + 1, Len(d))
    ELSE IF lines = <<>> THEN d
    ELSE SubSeq(d, 1, at) \o SubSeq(lines, 1, Len(lines) - 1)
         \o <<lines[Len(lines)] \o lineAt(d, at)>> \o SubSeq(d, at + 2, Len(d))

\* the document after a handler with the given outcome
docAfter(d, outcome) ==
    IF outcome.at = -1 THEN d
    ELSE insertSnippet(d, snippetLines(outcome.snippet), outcome.newline, outcome.at)

(***************************************************************************)
(* The completion providers: registerApexProviders (ApexHandler) and       *)
(* registerJsProviders (JSHandler) with tagItem and snippetItem            *)
(* (SharedHelpers).  A completion item is a record; range is <<>> when the *)
(* item has none.                                                          *)
(***************************************************************************)
\* tagItem(label, document, position, detail): prevChar is the character
\* before the position, "" at the start of the line
tagItem(label, text, character, detail) ==
    [label |-> label, kind |-> "Keyword", insertText |-> label \o " ", detail |-> detail,
     range |-> IF character >= 1 /\ CharAt(text, character) = "@"
               THEN <<character - 1, character>> ELSE <<>>]

\* snippetItem(label, snippet)
snippetItem(label, snippet) ==
    [label |-> label, kind |-> "Snippet", insertText |-> snippet, detail |-> "",
     range |-> <<>>]

\* for (const tag of tags) suggestions.push(tagItem(tag, document, position, detail))
tagItems(tags, text, character, detail) ==
    [i \in DOMAIN tags |-> tagItem(tags[i], text, character, detail)]

\* const apexTags
apexTags == <<"@description", "@example", "@author", "@date", "@group", "@group-content", "@see">>

\* the tags pushed after apexTags for the kind
apexKindTags(kind) ==
    IF kind \in {"method", "constructor"} THEN <<"@param", "@return", "@throws">>
    ELSE IF kind \in {"property", "enumValue", "class"} THEN <<"@description">>
    ELSE <<>>

\* decl?.kind ?? fallback
kindOr(decl, fallback) == IF decl = NoSite THEN fallback ELSE decl.kind

apexSuggestions(kind, text, character) ==
    tagItems(apexTags \o apexKindTags(kind), text, character, "ApexDoc tag")
    \o <<snippetItem("<<TypeName>>", "<<${1:TypeName}>>"),
         snippetItem("{@link TypeName}", "{@link ${1:TypeName}}")>>

\* provideCompletionItems of the Apex provider; undefined outside a doc block
provideApexCompletionItems(d, line, character) ==
    IF ~insideDocBlock(d, line) THEN [defined |-> FALSE, items |-> <<>>]
    ELSE [defined |-> TRUE,
          items |-> apexSuggestions(kindOr(detectApexKindAndLine(d, line), "class"),
                                    lineAt(d, line), character)]

\* const byKind
byKind(kind) ==
    CASE kind \in {"jsFunction", "jsMethod"} ->
           <<"@description", "@param", "@returns", "@throws", "@example", "@see", "@async",
             "@deprecated">>
      [] kind \in {"jsVariable", "jsProperty"} ->
           <<"@description", "@type", "@private", "@public", "@readonly", "@deprecated",
             "@see">>
      [] kind = "jsClass" ->
           <<"@description", "@deprecated", "@see">>

jsSuggestions(kind, text, character) ==
    tagItems(byKind(kind), text, character, "JSDoc tag")
    \o <<snippetItem("{@link TypeOrURL}", "{@link ${1:TypeOrURL}}")>>

\* provideCompletionItems of the JS/TS provider
provideJsCompletionItems(d, line, character) ==
    IF ~insideDocBlock(d, line) THEN [defined |-> FALSE, items |-> <<>>]
    ELSE [defined |-> TRUE,
          items |-> jsSuggestions(kindOr(detectJsKindAndLine(d, line), "jsFunction"),
                                  lineAt(d, line), character)]

(***************************************************************************)
(* The documents and focus lines the operations are applied to.            *)
(***************************************************************************)
MaxLines == 3

\* no snippet file is read by the operations on documents and templates
NothingLoaded == snippets = <<>> /\ snippetCache = <<>>

\* every document of 1..n lines over a pool
DocsUpTo(pool, n) == UNION {[1..k -> pool] : k \in 1..n}

\* k copies of one line
Fill(text, k) == [i \in 1..k |-> text]

\* the lengths of filler that put a line just inside and just outside the
\* annotation-run window (10) and the declaration-search window (200)
FillLens == {9, 10, 11, 199, 200, 201}

LongApexDocs ==
    {h \o Fill(f, k) \o <<t>> :
        h \in {<<"void bar() {">>, <<"x = 1;">>, <<"@AuraEnabled">>,
               <<"void bar() {", "@AuraEnabled">>},
        f \in {"", "x = 1;"},
        k \in FillLens,
        t \in {"public class Foo {", "x = 1;"}}

LongJsDocs ==
    {<<h>> \o Fill(f, k) \o <<t>> :
        h \in {"function foo(a, b) {", "// c"},
        f \in {"", "// c"},
        k \in FillLens,
        t \in {"const x = 1;", "// c"}}

ApexDocs == DocsUpTo(ApexPool, MaxLines) \cup LongApexDocs

JsDocs == DocsUpTo(JsPool, MaxLines) \cup LongJsDocs

\* every line of a short document; the lines next to either end of a long one
Foci(d) ==
    IF Len(d) <= MaxLines + 1 THEN 0..(Len(d) - 1)
    ELSE {0, 1, Len(d) - 2, Len(d) - 1}

NoRet == <<>>

InitLocate ==
    /\ \/ lang = "apex" /\ doc \in ApexDocs
       \/ lang = "javascript" /\ doc \in JsDocs
    /\ here \in Foci(doc)
    /\ arg = "null"
    /\ call = "none"
    /\ ret = NoRet
    /\ NothingLoaded

DetectApex ==
    /\ call = "none"
    /\ lang = "apex"
    /\ call' = "detectApexKindAndLine"
    /\ ret' = detectApexKindAndLine(doc, here)
    /\ UNCHANGED <<lang, doc, here, arg, snippets, snippetCache>>

DetectJs ==
    /\ call = "none"
    /\ lang = "javascript"
    /\ call' = "detectJsKindAndLine"
    /\ ret' = detectJsKindAndLine(doc, here)
    /\ UNCHANGED <<lang, doc, here, arg, snippets, snippetCache>>

KindAtLine ==
    /\ call = "none"
    /\ lang = "apex"
    /\ call' = "apexKindAtLine"
    /\ ret' = apexKindAtLine(doc, here)
    /\ UNCHANGED <<lang, doc, here, arg, snippets, snippetCache>>

\* getApexParams on the site the locator returned, up to its first
\* statement: const start = locateApexSignatureStart(doc, declLine, kind)
StartOfDetected ==
    /\ call = "detectApexKindAndLine"
    /\ ret # NoSite
    /\ ret.kind \in {"method", "constructor"}
    /\ call' = "getApexParams"
    /\ arg' = ret
    /\ ret' = locateApexSignatureStart(doc, ret.line, ret.kind)
    /\ UNCHANGED <<lang, doc, here, snippets, snippetCache>>

NextLocate == DetectApex \/ DetectJs \/ KindAtLine \/ StartOfDetected

SpecLocate == InitLocate /\ [][NextLocate]_vars

(***************************************************************************)
(* Signature reassembly applied to documents of signature lines.           *)
(***************************************************************************)
MaxSigLines == 2

\* the lengths of filler that put the closing line of a signature on the last
\* line read and on the first line not read (10 lines for JS, 50 for Apex)
SigFillLens == {9, 10, 49, 50}

LongApexSigDocs ==
    {<<"void foo(Integer a,">> \o Fill("", k) \o <<"String b) {">> : k \in SigFillLens}

LongJsSigDocs ==
    {<<"function foo(a,">> \o Fill("", k) \o <<"b) {">> : k \in SigFillLens}

ApexSigDocs == DocsUpTo(ApexSigPool, MaxSigLines) \cup LongApexSigDocs

JsSigDocs == DocsUpTo(JsSigPool, MaxSigLines) \cup LongJsSigDocs

InitParams ==
    /\ \/ lang = "apex" /\ doc \in ApexSigDocs /\ arg \in {"method", "constructor"}
       \/ lang = "javascript" /\ doc \in JsSigDocs /\ arg = "null"
    /\ here \in Foci(doc)
    /\ call = "none"
    /\ ret = NoRet
    /\ NothingLoaded

GetApexParams ==
    /\ call = "none"
    /\ lang = "apex"
    /\ call' = "getApexParams"
    /\ ret' = getApexParams(doc, here, arg)
    /\ UNCHANGED <<lang, doc, here, arg, snippets, snippetCache>>

LocateApexSignatureStart ==
    /\ call = "none"
    /\ lang = "apex"
    /\ call' = "locateApexSignatureStart"
    /\ ret' = locateApexSignatureStart(doc, here, arg)
    /\ UNCHANGED <<lang, doc, here, arg, snippets, snippetCache>>

GetJsParams ==
    /\ call = "none"
    /\ lang = "javascript"
    /\ call' = "getJsParams"
    /\ ret' = getJsParams(doc, here)
    /\ UNCHANGED <<lang, doc, here, arg, snippets, snippetCache>>

NextParams == GetApexParams \/ LocateApexSignatureStart \/ GetJsParams

SpecParams == InitParams /\ [][NextParams]_vars

(***************************************************************************)
(* The top finder applied to a declaration line and the lines above it.    *)
(***************************************************************************)
MaxTopLines == 5

InitTop ==
    /\ lang = "apex"
    /\ doc \in DocsUpTo(TopPool, MaxTopLines)
    /\ here \in 0..(Len(doc) - 1)
    /\ arg = "null"
    /\ call = "none"
    /\ ret = NoRet
    /\ NothingLoaded

FindTopOfAnnotationBlock ==
    /\ call = "none"
    /\ call' = "findTopOfAnnotationBlock"
    /\ ret' = findTopOfAnnotationBlock(doc, here)
    /\ UNCHANGED <<lang, doc, here, arg, snippets, snippetCache>>

FindTopOfJsDecoratorBlock ==
    /\ call = "none"
    /\ call' = "findTopOfJsDecoratorBlock"
    /\ ret' = findTopOfJsDecoratorBlock(doc, here)
    /\ UNCHANGED <<lang, doc, here, arg, snippets, snippetCache>>

NextTop == FindTopOfAnnotationBlock \/ FindTopOfJsDecoratorBlock

SpecTop == InitTop /\ [][NextTop]_vars

(***************************************************************************)
(* The comment-block membership check applied to documents with block      *)
(* comments.                                                               *)
(***************************************************************************)
\* the lengths of filler that put an opener on the last line of the look-back
\* window and on the first line outside it (80 lines, 100 in the earlier variant)
BlockFillLens == {79, 80, 99, 100}

LongBlockDocs ==
    {<<h>> \o Fill(f, k) \o <<t>> :
        h \in {"/**", " */"},
        f \in {"", " * @param a"},
        k \in BlockFillLens,
        t \in {"", "x = 1;"}}

BlockDocs == DocsUpTo(BlockPool, MaxLines) \cup LongBlockDocs

InitBlock ==
    /\ lang \in {"apex", "javascript"}
    /\ doc \in BlockDocs
    /\ here \in Foci(doc)
    /\ arg = "null"
    /\ call = "none"
    /\ ret = NoRet
    /\ NothingLoaded

InsideDocBlock ==
    /\ call = "none"
    /\ call' = "insideDocBlock"
    /\ ret' = insideDocBlock(doc, here)
    /\ UNCHANGED <<lang, doc, here, arg, snippets, snippetCache>>

InsideDocBlockEarlier ==
    /\ call = "none"
    /\ call' = "insideDocBlockEarlier"
    /\ ret' = insideDocBlockEarlier(doc, here)
    /\ UNCHANGED <<lang, doc, here, arg, snippets, snippetCache>>

NextBlock == InsideDocBlock \/ InsideDocBlockEarlier

SpecBlock == InitBlock /\ [][NextBlock]_vars

(***************************************************************************)
(* The patch engine applied to templates, once and again to its own        *)
(* result.                                                                 *)
(***************************************************************************)
MaxTplLines == 3

MaxCalls == 2

\* templates framed by the opener and closer of a block comment, and short
\* sequences of any template lines, the empty one included
Templates ==
    {<<"/**">> \o body \o <<" */">> :
        body \in {<<>>} \cup DocsUpTo(TemplatePool \ {"/**", " */"}, MaxTplLines)}
    \cup {<<>>} \cup DocsUpTo(TemplatePool, 2)

\* params.map(...) for the parameter lists <<a>>, <<b>>, <<a, b>>
ApexGenerated ==
    {<<apexParamLine("a")>>, <<apexParamLine("b")>>,
     <<apexParamLine("a"), apexParamLine("b")>>}

JsGenerated ==
    {<<jsParamLine("a", 1)>>, <<jsParamLine("b", 1)>>,
     <<jsParamLine("a", 1), jsParamLine("b", 2)>>}

InitPatch ==
    /\ lang \in {"apex", "javascript"}
    /\ doc = <<"">>
    /\ here = 0
    /\ arg \in [template : Templates, first : {<<>>}, generated : {<<>>}, calls : {0}]
    /\ call = "none"
    /\ ret = NoRet
    /\ NothingLoaded

\* the lines argument of the next call: the template, then the last result
NextLines == IF arg.calls = 0 THEN arg.template ELSE ret

Called(generated) ==
    [template |-> arg.template,
     first |-> IF arg.calls = 0 THEN generated ELSE arg.first,
     generated |-> generated,
     calls |-> arg.calls + 1]

ReplaceOrInjectApexParams ==
    /\ lang = "apex"
    /\ call \in {"none", "replaceOrInjectApexParams"}
    /\ arg.calls < MaxCalls
    /\ \E generated \in ApexGenerated :
          /\ ret' = replaceOrInjectApexParams(NextLines, generated)
          /\ arg' = Called(generated)
    /\ call' = "replaceOrInjectApexParams"
    /\ UNCHANGED <<lang, doc, here, snippets, snippetCache>>

ReplaceOrInjectJsParamsAndReturns ==
    /\ lang = "javascript"
    /\ call \in {"none", "replaceOrInjectJsParamsAndReturns"}
    /\ arg.calls < MaxCalls
    /\ \E generated \in JsGenerated :
          /\ ret' = replaceOrInjectJsParamsAndReturns(NextLines, generated)
          /\ arg' = Called(generated)
    /\ call' = "replaceOrInjectJsParamsAndReturns"
    /\ UNCHANGED <<lang, doc, here, snippets, snippetCache>>

EnsureReturnsInJSDoc ==
    /\ lang = "javascript"
    /\ call \in {"none", "ensureReturnsInJSDoc"}
    /\ arg.calls < MaxCalls
    /\ ret' = ensureReturnsInJSDoc(NextLines)
    /\ arg' = Called(<<>>)
    /\ call' = "ensureReturnsInJSDoc"
    /\ UNCHANGED <<lang, doc, here, snippets, snippetCache>>

NextPatch ==
    ReplaceOrInjectApexParams \/ ReplaceOrInjectJsParamsAndReturns \/ EnsureReturnsInJSDoc

SpecPatch == InitPatch /\ [][NextPatch]_vars

(***************************************************************************)
(* The generate commands on a document, one after the other, with the      *)
(* snippet files of the extension and the cache of the session.            *)
(***************************************************************************)
\* a command is run on a document of at most this many lines
MaxGenLines == 5

\* the documents of one line and of two lines over a pool
ShortDocs(pool) == {<<a>> : a \in pool} \cup {<<a, b>> : a, b \in pool}

\* the snippet files, all of them or all but one
StoreOf(edition, missing) ==
    [k \in SnippetKeys |-> IF k = missing THEN NoFile ELSE SnippetFile(edition, k)]

Stores(folder) ==
    {StoreOf(e, "none") : e \in Editions}
    \cup {StoreOf(1, k) : k \in {k \in SnippetKeys : startsWith(k, folder)}}

InitGenerate ==
    /\ \/ lang = "apex" /\ doc \in ShortDocs(ApexGenPool) /\ snippets \in Stores("ApexDoc")
       \/ lang = "javascript" /\ doc \in ShortDocs(JsGenPool) /\ snippets \in Stores("JSDoc")
    /\ here = 0
    /\ arg = [doc |-> doc, cache |-> <<>>, headers |-> 0]
    /\ call = "none"
    /\ ret = NoRet
    /\ snippetCache = <<>>

\* the file headers put in so far
HeadersSoFar == arg.headers + (IF call # "none" /\ ret.header THEN 1 ELSE 0)

\* a handler ran at line h: arg keeps the document and the cache it ran on
Handled(outcome, h) ==
    /\ here' = h
    /\ ret' = outcome
    /\ doc' = docAfter(doc, outcome)
    /\ snippetCache' = outcome.cache
    /\ arg' = [doc |-> doc, cache |-> snippetCache, headers |-> HeadersSoFar]
    /\ UNCHANGED <<lang, snippets>>

\* the command apexdoc.generate in an Apex document
GenerateApexDoc ==
    /\ lang = "apex"
    /\ lineCount(doc) <= MaxGenLines
    /\ call' = "generateApexDoc"
    /\ \E h \in 0..(lineCount(doc) - 1) :
          Handled(generateApexDoc(doc, h, snippets, snippetCache), h)

\* the command apexdoc.generate in a JS/TS document
GenerateJsDoc ==
    /\ lang = "javascript"
    /\ lineCount(doc) <= MaxGenLines
    /\ call' = "generateJsDoc"
    /\ \E h \in 0..(lineCount(doc) - 1) :
          Handled(generateJsDoc(doc, h, snippets, snippetCache), h)

\* the command apexdoc.generateFileHeader in a JS/TS document
GenerateJsFileHeader ==
    /\ lang = "javascript"
    /\ lineCount(doc) <= MaxGenLines
    /\ call' = "generateJsFileHeader"
    /\ Handled(generateJsFileHeader(doc, snippets, snippetCache), here)

NextGenerate == GenerateApexDoc \/ GenerateJsDoc \/ GenerateJsFileHeader

SpecGenerate == InitGenerate /\ [][NextGenerate]_vars

(***************************************************************************)
(* A completion request at a position of a document.                       *)
(***************************************************************************)
\* the start of the line and the places after a "@"
Characters(text) == {0} \cup {k \in 1..Len(text) : CharAt(text, k) = "@"}

\* at most this many lines after the opener of a block comment
MaxCommentLines == 2

\* documents of a block comment, opened or not, over a declaration, under
\* nothing or under the head of a class or an enum
CompletionDocs(heads, decls) ==
    {h \o o \o b \o <<d>> :
        h \in heads, o \in {<<>>, <<"/**">>},
        b \in DocsUpTo(CommentPool \ {"/**"}, MaxCommentLines), d \in decls}

InitComplete ==
    /\ \/ /\ lang = "apex"
          /\ doc \in CompletionDocs({<<>>, <<"public class Foo {">>, <<"enum Color {">>},
                                    ApexDeclPool)
       \/ /\ lang = "javascript"
          /\ doc \in CompletionDocs({<<>>, <<"class Foo {">>}, JsDeclPool)
    /\ here \in 0..(lineCount(doc) - 1)
    /\ arg \in Characters(lineAt(doc, here))
    /\ call = "none"
    /\ ret = NoRet
    /\ NothingLoaded

ProvideApexCompletionItems ==
    /\ call = "none"
    /\ lang = "apex"
    /\ call' = "provideApexCompletionItems"
    /\ ret' = provideApexCompletionItems(doc, here, arg)
    /\ UNCHANGED <<lang, doc, here, arg, snippets, snippetCache>>

ProvideJsCompletionItems ==
    /\ call = "none"
    /\ lang = "javascript"
    /\ call' = "provideJsCompletionItems"
    /\ ret' = provideJsCompletionItems(doc, here, arg)
    /\ UNCHANGED <<lang, doc, here, arg, snippets, snippetCache>>

NextComplete == ProvideApexCompletionItems \/ ProvideJsCompletionItems

SpecComplete == InitComplete /\ [][NextComplete]_vars

(***************************************************************************)
(* The document reads of generateApexDoc, call by call: the locator, then  *)
(* getApexParams for a method or a constructor, then the top finder.       *)
(***************************************************************************)
InitReads ==
    /\ lang = "apex"
    /\ doc \in ApexDocs \cup ApexSigDocs
    /\ here \in Foci(doc)
    /\ arg = NoSite
    /\ call = "none"
    /\ ret = NoReads
    /\ NothingLoaded

\* const detected = detectApexKindAndLine(doc, here)
ReadsOfDetect ==
    /\ call = "none"
    /\ call' = "detectApexKindAndLine"
    /\ arg' = detectApexKindAndLine(doc, here)
    /\ ret' = detectApexReads(doc, here)
    /\ UNCHANGED <<lang, doc, here, snippets, snippetCache>>

\* if (kind === "method" || kind === "constructor") getApexParams(doc, declLine, kind)
ReadsOfGetApexParams ==
    /\ call = "detectApexKindAndLine"
    /\ arg # NoSite
    /\ arg.kind \in {"method", "constructor"}
    /\ call' = "getApexParams"
    /\ ret' = getApexParamsReads(doc, arg.line, arg.kind)
    /\ UNCHANGED <<lang, doc, here, arg, snippets, snippetCache>>

\* const insertLine = findTopOfAnnotationBlock(doc, declLine)
ReadsOfFindTop ==
    /\ \/ call = "getApexParams"
       \/ call = "detectApexKindAndLine" /\ arg # NoSite
                                         /\ arg.kind \notin {"method", "constructor"}
    /\ call' = "findTopOfAnnotationBlock"
    /\ ret' = topReads(doc, arg.line)
    /\ UNCHANGED <<lang, doc, here, arg, snippets, snippetCache>>

NextReads == ReadsOfDetect \/ ReadsOfGetApexParams \/ ReadsOfFindTop

SpecReads == InitReads /\ [][NextReads]_vars

(***************************************************************************)
(* Properties of the locator.                                              *)
(***************************************************************************)
Located == call \in {"detectApexKindAndLine", "detectJsKindAndLine"}

\* the kind the grammar of the document's language gives line i
KindOfLine(i) ==
    IF lang = "apex" THEN apexKindAtLine(doc, i) ELSE jsKindTable[lineAt(doc, i)]

\* the grammar-matching lines at or above / below the focus line, within 200 lines
UpMatches == {i \in Max(0, here - 200)..here : KindOfLine(i) # "null"}

DownMatches == {i \in (here + 1)..Min(lineCount(doc) - 1, here + 200) : KindOfLine(i) # "null"}

\* the focus line is annotation-marked or lies in an annotation run (Apex)
Annotated ==
    lang = "apex" /\ (isAnnotationLine(lineAt(doc, here)) \/ isInsideAnnotationRun(doc, here))

\* the first line at or after the focus that is neither blank nor an annotation
CodeLines == {j \in here..(lineCount(doc) - 1) : ~isAnnoOrBlank(lineAt(doc, j))}

\* the grammar-matching lines within 200 lines from that line on
ForwardMatches ==
    IF CodeLines = {} THEN {}
    ELSE {l \in Lowest(CodeLines)..Min(lineCount(doc) - 1, Lowest(CodeLines) + 200) :
             apexKindAtLine(doc, l) # "null"}

\* C1 as stated: whenever a line at or above the focus and a line below it
\* match, the locator returns the nearest match at or above the focus.
C1_UpwardAlways ==
    (Located /\ UpMatches # {} /\ DownMatches # {})
        => ret = Site(KindOfLine(Highest(UpMatches)), Highest(UpMatches))

\* C1 amended: the locator returns the nearest match at or above the focus
\* unless (Apex) the focus is in an annotation context and the forward scan
\* past the run finds a declaration; it then returns that forward match.
C1_TieBreak ==
    (Located /\ UpMatches # {} /\ DownMatches # {})
        => IF Annotated /\ ForwardMatches # {}
           THEN ret = Site(KindOfLine(Lowest(ForwardMatches)), Lowest(ForwardMatches))
           ELSE ret = Site(KindOfLine(Highest(UpMatches)), Highest(UpMatches))

\* a focus line strictly between two matching lines, outside an annotation context
C1_Witness ==
    /\ call = "detectApexKindAndLine"
    /\ UpMatches # {} /\ DownMatches # {} /\ ~Annotated
    /\ ret.line = Highest(UpMatches) /\ ret.line < here

\* C7: in an annotation context, when a line matches within 200 lines from
\* the first code line at or after the focus, the locator returns the first
\* such line, which lies below the focus, and not a declaration above it.
C7_ForwardPastAnnotations ==
    (call = "detectApexKindAndLine" /\ Annotated /\ ForwardMatches # {})
        => /\ ret = Site(apexKindAtLine(doc, Lowest(ForwardMatches)), Lowest(ForwardMatches))
           /\ ret.line > here

\* an annotation focus with a declaration above it and one below the run
C7_Witness ==
    /\ call = "detectApexKindAndLine" /\ Annotated /\ ForwardMatches # {}
    /\ UpMatches # {}
    /\ ret.line > here

\* C8: the locator returns null or a site whose line is a line of the
\* document and lies in the window that was scanned.
C8_SiteInWindow ==
    Located =>
        \/ ret = NoSite
        \/ /\ ret.line \in 0..(lineCount(doc) - 1)
           /\ \/ ret.line \in (here - 200)..(here + 200)
              \/ /\ Annotated /\ CodeLines # {}
                 /\ ret.line \in Lowest(CodeLines)..(Lowest(CodeLines) + 200)

\* a forward scan that returns a line more than 200 lines below the focus
C8_Witness ==
    /\ call = "detectApexKindAndLine" /\ Annotated
    /\ ret # NoSite /\ ret.line > here + 200

\* C23: the locator returns a site whenever a line within 200 lines of the
\* focus (and in the document) matches a grammar rule, also when the forward
\* scan of an annotation context found nothing; it returns null only when
\* no line of that window matches.
C23_NullOnlyWhenExhausted ==
    Located =>
        /\ (UpMatches \cup DownMatches # {}) => ret # NoSite
        /\ ret = NoSite =>
              /\ UpMatches \cup DownMatches = {}
              /\ Annotated => ForwardMatches = {}

\* an annotation focus with nothing after it: the declaration above is returned
C23_Witness ==
    /\ call = "detectApexKindAndLine"
    /\ Annotated
    /\ ForwardMatches = {}
    /\ DownMatches = {}
    /\ UpMatches # {}
    /\ ret = Site(KindOfLine(Highest(UpMatches)), Highest(UpMatches))
    /\ ret.line < here

\* C25: when the focus line itself matches a grammar rule, the locator
\* returns the focus line with the kind of that rule; for Apex such a line is
\* neither blank nor annotation-marked and lies in no annotation run.
C25_FocusLineFirst ==
    (Located /\ KindOfLine(here) # "null") =>
        /\ ret = Site(KindOfLine(here), here)
        /\ ~Annotated
        /\ ~isAnnoOrBlank(lineAt(doc, here))

\* C26: for a site of kind method or constructor that the locator returned,
\* locateApexSignatureStart returns the line of the site, so getApexParams
\* reads the signature from the located declaration line on.
C26_StartIsDeclarationLine ==
    (lang = "apex" /\ call = "getApexParams") =>
        /\ ret = arg.line
        /\ getApexParams(doc, arg.line, arg.kind) = getApexParamsFrom(doc, arg.line)

\* a constructor found below the focus line
C26_Witness ==
    /\ lang = "apex" /\ call = "getApexParams"
    /\ arg.kind = "constructor"
    /\ arg.line > here
    /\ ret = arg.line
    /\ getApexParams(doc, arg.line, arg.kind) # <<>>

\* a matching focus line right under an annotation, with a declaration below
C25_Witness ==
    /\ call = "detectApexKindAndLine"
    /\ here >= 1
    /\ isAnnotationLine(lineAt(doc, here - 1))
    /\ DownMatches # {}
    /\ ret = Site(KindOfLine(here), here)

\* what each rule of apexKindAtLine says of line i: pattern and context predicate
EnumRule(i) == matchesEnumValue[lineAt(doc, i)] /\ isInsideEnumBlock(doc, i)

CtorRule(i) ==
    /\ findEnclosingClassName(doc, i) # ""
    /\ TestI(ReCtor(findEnclosingClassName(doc, i)), stripLineComments(lineAt(doc, i)))

MethodRule(i) == matchesMethod[lineAt(doc, i)]

ClassRule(i) == matchesClass[lineAt(doc, i)]

PropertyRule(i) == matchesProperty[lineAt(doc, i)]

\* C9: apexKindAtLine gives the kind of the first rule that holds, in the
\* order enum member, constructor, method, class, property, and null when
\* none holds; a line that is constructor and method is a constructor.
C9_FirstRuleWins ==
    call = "apexKindAtLine" =>
        /\ EnumRule(here) => ret = "enumValue"
        /\ (~EnumRule(here) /\ CtorRule(here)) => ret = "constructor"
        /\ (~EnumRule(here) /\ ~CtorRule(here) /\ MethodRule(here)) => ret = "method"
        /\ (~EnumRule(here) /\ ~CtorRule(here) /\ ~MethodRule(here) /\ ClassRule(here))
              => ret = "class"
        /\ (~EnumRule(here) /\ ~CtorRule(here) /\ ~MethodRule(here) /\ ~ClassRule(here)
              /\ PropertyRule(here)) => ret = "property"
        /\ (~EnumRule(here) /\ ~CtorRule(here) /\ ~MethodRule(here) /\ ~ClassRule(here)
              /\ ~PropertyRule(here)) => ret = "null"

\* a constructor line, which the method pattern matches as well
C9_Witness ==
    /\ call = "apexKindAtLine"
    /\ lineAt(doc, here) = "public Foo(Integer a) {"
    /\ CtorRule(here) /\ MethodRule(here) /\ ~EnumRule(here)
    /\ ret = "constructor"
(***************************************************************************)
(* Properties of the signature reassembler.                                *)
(***************************************************************************)
AskedParams(kind) == call = "getApexParams" /\ arg = kind

\* the focus line holds text and every other line of the document is blank
OnlySignature(text) ==
    /\ lineAt(doc, here) = text
    /\ \A i \in 0..(lineCount(doc) - 1) : i # here => lineAt(doc, i) = ""

\* C2 as stated: getApexParams on the single line "void foo(Integer a, String b)"
\* returns <<"a", "b">>, and on the single line "void foo()" the empty list.
C2_BareSignature ==
    AskedParams("method") =>
        /\ OnlySignature("void foo(Integer a, String b)") => ret = <<"a", "b">>
        /\ OnlySignature("void foo()") => ret = <<>>

\* C2 amended: getApexParams returns <<"a", "b">> on the single line
\* "void foo(Integer a, String b) {", whose closing parenthesis is followed by
\* the body opener; on the same line without it, on "void foo()" and on
\* "void foo() {" it returns the empty list.
C2_ClosedSignature ==
    AskedParams("method") =>
        /\ OnlySignature("void foo(Integer a, String b) {") => ret = <<"a", "b">>
        /\ OnlySignature("void foo(Integer a, String b)") => ret = <<>>
        /\ OnlySignature("void foo()") => ret = <<>>
        /\ OnlySignature("void foo() {") => ret = <<>>

C2_Witness ==
    /\ AskedParams("method")
    /\ OnlySignature("void foo(Integer a, String b) {")
    /\ ret = <<"a", "b">>

\* the focus line and the line after it hold a signature split in two
SplitSignature ==
    /\ here + 1 < lineCount(doc)
    /\ lineAt(doc, here) = "void foo(Integer a,"
    /\ lineAt(doc, here + 1) = "String b) {"

\* C3: getApexParams on "void foo(Integer a," followed by "String b) {", asked
\* for a method at the first of the two lines, returns <<"a", "b">>.
C3_TwoLineSignature ==
    (AskedParams("method") /\ SplitSignature) => ret = <<"a", "b">>

C3_Witness == AskedParams("method") /\ SplitSignature /\ ret = <<"a", "b">>

\* the lines getApexParams reads: from the signature start, at most 50 more
SigStart == locateApexSignatureStart(doc, here, arg)

ApexLinesRead ==
    IF SigStart = -1 THEN {} ELSE SigStart..Min(lineCount(doc) - 1, SigStart + 50)

\* the lines read on which the signature closes: ")" followed by "{" or ";",
\* with a "(" on that line or on a line read before it
ApexClosingLines ==
    {i \in ApexLinesRead :
        /\ closesSignature[lineAt(doc, i)]
        /\ \E j \in SigStart..i : includes(strippedLine[lineAt(doc, j)], "(")}

\* the lines getJsParams reads (the declaration line and at most 10 more) that
\* hold a ")"
JsClosingLines ==
    {i \in here..Min(lineCount(doc) - 1, here + 10) : hasCloseParen[lineAt(doc, i)]}

\* C10: when no line read closes the signature (the bound of 50 lines for
\* Apex, 10 for JS, or the end of the document comes first), the parameter
\* list is empty.
C10_NoCloseNoParams ==
    /\ (call = "getApexParams" /\ ApexClosingLines = {}) => ret = <<>>
    /\ (call = "getJsParams" /\ JsClosingLines = {}) => ret = <<>>

\* an Apex signature opened on the start line whose closing line is the first
\* line past the bound
C10_Witness ==
    /\ call = "getApexParams"
    /\ SigStart # -1
    /\ includes(lineAt(doc, SigStart), "(")
    /\ ApexClosingLines = {}
    /\ lineCount(doc) - 1 = SigStart + 51
    /\ closesSignature[lineAt(doc, SigStart + 51)]
    /\ ret = <<>>

\* the signature opens and closes on the focus line
OneLineSignature ==
    \/ call = "getApexParams" /\ SigStart = here /\ closesSignature[lineAt(doc, here)]
    \/ call = "getJsParams" /\ hasCloseParen[lineAt(doc, here)]

\* the comma-separated segments between its parentheses, left to right
SegmentsHere == split(paramBlob(strippedLine[lineAt(doc, here)] \o " "), ",")

\* the name extracted from a segment, "" when it has none
NameOfSegment(seg) ==
    IF call = "getApexParams" THEN apexParamName(trim(seg)) ELSE jsParamName(trim(seg))

NamedSegments == {i \in 1..Len(SegmentsHere) : NameOfSegment(SegmentsHere[i]) # ""}

\* the k-th segment, from the left, that has a name
KthNamed(k) ==
    CHOOSE i \in NamedSegments : Cardinality({j \in NamedSegments : j <= i}) = k

\* C11: the parameter list holds, in the left-to-right order of the segments,
\* the name of every segment whose name is not empty, a name as often as it
\* occurs; only segments without a name are left out.
C11_OrderAndDuplicatesKept ==
    OneLineSignature =>
        /\ Len(ret) = Cardinality(NamedSegments)
        /\ \A k \in 1..Len(ret) : ret[k] = NameOfSegment(SegmentsHere[KthNamed(k)])

\* a list with a repeated name, names out of alphabetical order and a segment
\* left out
C11_Witness ==
    /\ OneLineSignature
    /\ Len(ret) = 3
    /\ Len(ret) < Len(SegmentsHere)
    /\ ret = <<"b", "a", "b">>

(***************************************************************************)
(* Properties of the top finder.                                           *)
(***************************************************************************)
AskedTop == call = "findTopOfAnnotationBlock"

BlankAt(i) == trim(lineAt(doc, i)) = ""

AnnoAt(i) == startsWith(trim(lineAt(doc, i)), "@")

\* the lines above the declaration that are neither blank nor annotations
CodeAbove == {j \in 0..(here - 1) : ~BlankAt(j) /\ ~AnnoAt(j)}

\* line j is an annotation joined to the declaration by blank and annotation
\* lines only
Attached(j) == AnnoAt(j) /\ \A k \in j..(here - 1) : BlankAt(k) \/ AnnoAt(k)

\* C4 as stated: the insertion line is one past the nearest line above the
\* declaration that is neither blank nor an annotation (0 when there is
\* none), so no attached annotation is above the insertion line.
C4_StopsAtCode ==
    AskedTop =>
        /\ ret = (IF CodeAbove = {} THEN 0 ELSE Highest(CodeAbove) + 1)
        /\ \A j \in 0..(here - 1) : Attached(j) => ret <= j

\* the nearest non-blank line above the declaration, -1 when there is none
LowestOfRun ==
    IF \A j \in 0..(here - 1) : BlankAt(j) THEN -1
    ELSE Highest({j \in 0..(here - 1) : ~BlankAt(j)})

\* the lines at or above it that are not annotations, blank lines included
NonAnnoAbove == {j \in 0..LowestOfRun : ~AnnoAt(j)}

\* line j belongs to the unbroken run of annotations that ends at LowestOfRun
InRun(j) == j <= LowestOfRun /\ \A k \in j..LowestOfRun : AnnoAt(k)

\* C4 amended: the walk skips the blank lines directly above the declaration,
\* then an unbroken run of annotation lines, and stops at the first line
\* after that which is not an annotation, a blank line included; the
\* insertion line is one past it (0 when there is none), so every annotation
\* of that run is at or below the insertion line.
C4_TopOfRun ==
    AskedTop =>
        /\ ret = (IF NonAnnoAbove = {} THEN 0 ELSE Highest(NonAnnoAbove) + 1)
        /\ \A j \in 0..(here - 1) : InRun(j) => ret <= j

\* the walk stopped at a blank line under which an annotation run begins
C4_Witness ==
    /\ AskedTop
    /\ ret >= 1
    /\ ret < here
    /\ BlankAt(ret - 1)
    /\ AnnoAt(ret)

\* code, a blank line, two annotation lines, then the declaration
TwoAnnotationsUnderBlank ==
    /\ here >= 4
    /\ AnnoAt(here - 1)
    /\ AnnoAt(here - 2)
    /\ BlankAt(here - 3)
    /\ ~BlankAt(here - 4) /\ ~AnnoAt(here - 4)

\* C5: for a declaration under two annotation lines under a blank line under
\* a code line, findTopOfAnnotationBlock returns the line of the upper
\* annotation, not that of the blank line or of the code line.
C5_FirstAnnotation ==
    (AskedTop /\ TwoAnnotationsUnderBlank) => ret = here - 2

C5_Witness == AskedTop /\ TwoAnnotationsUnderBlank /\ ret = here - 2

AskedEitherTop == call \in {"findTopOfAnnotationBlock", "findTopOfJsDecoratorBlock"}

\* the mark the finder asked walks over: a leading "@" for Apex annotations,
\* @api, @wire or @track for JS decorators
MarkedAt(i) ==
    IF call = "findTopOfJsDecoratorBlock" THEN isJsDecorator[lineAt(doc, i)] ELSE AnnoAt(i)

\* C29: the line r returned by findTopOfAnnotationBlock (and by its JS
\* counterpart findTopOfJsDecoratorBlock) is in 0..declLine, every line
\* from r to declLine - 1 is blank or marked, and the line above r, when
\* there is one, is not marked.
C29_TopWithinRun ==
    AskedEitherTop =>
        /\ 0 <= ret
        /\ ret <= here
        /\ \A j \in ret..(here - 1) : BlankAt(j) \/ MarkedAt(j)
        /\ ret > 0 => ~MarkedAt(ret - 1)

\* the returned line is marked, below line 0, and a blank line lies between
\* the marked run and the declaration
C29_Witness ==
    /\ AskedEitherTop
    /\ 0 < ret
    /\ ret + 1 < here
    /\ MarkedAt(ret)
    /\ BlankAt(here - 1)

(***************************************************************************)
(* Properties of the comment-block membership check.                       *)
(***************************************************************************)
AskedInside == call \in {"insideDocBlock", "insideDocBlockEarlier"}

HasOpenerAt(i) == includes(lineAt(doc, i), "/**")

HasCloserAt(i) == includes(lineAt(doc, i), "*/")

\* the focus line begins, after white space, with "*"
FocusStartsStar == startsWith(trim(lineAt(doc, here)), "*")

\* the lines above the focus line that hold a comment marker
MarkersAbove == {i \in 0..(here - 1) : HasOpenerAt(i) \/ HasCloserAt(i)}

Window == IF call = "insideDocBlock" THEN 80 ELSE 100

\* the lines of the window, the focus line included, that hold a marker
MarkersInWindow ==
    {i \in Max(0, here - Window)..here : HasOpenerAt(i) \/ HasCloserAt(i)}

\* line i is blank or comment text: it begins with "*" or "/*"
CommentOrBlankAt(i) ==
    \/ trim(lineAt(doc, i)) = ""
    \/ startsWith(trim(lineAt(doc, i)), "*")
    \/ startsWith(trim(lineAt(doc, i)), "/*")

FocusStartsBlock == startsWith(trim(lineAt(doc, here)), "/**") \/ FocusStartsStar

StopsInWindow ==
    MarkersInWindow
    \cup (IF call = "insideDocBlock"
          THEN {i \in Max(0, here - Window)..here : ~CommentOrBlankAt(i)}
          ELSE {})

\* the focus line answers at once: it begins with "*" or, in SharedHelpers,
\* holds "/**" anywhere, in the earlier variant begins with "/**"
AnswersAtOnce ==
    \/ FocusStartsStar
    \/ IF call = "insideDocBlock" THEN HasOpenerAt(here)
       ELSE startsWith(trim(lineAt(doc, here)), "/**")

InjectedOnce ==
    /\ call \in {"replaceOrInjectApexParams", "replaceOrInjectJsParamsAndReturns"}
    /\ arg.calls = 1

\* the parameter-marker and description-marker tests of the dialect
ParamMarkerAt(i) ==
    IF lang = "apex" THEN startsWith(trim(arg.template[i]), "* @param")
    ELSE isJsParamMarker[arg.template[i]]

DescMarkerAt(i) ==
    IF lang = "apex" THEN startsWith(trim(arg.template[i]), "* @description")
    ELSE isJsDescMarker[arg.template[i]]

ParamMarkers == {i \in DOMAIN arg.template : ParamMarkerAt(i)}

DescMarkers == {i \in DOMAIN arg.template : DescMarkerAt(i)}

\* the result of the parameter step: for JS, the result without the return
\* line that the function adds after it
ParamStepResult ==
    IF lang = "apex" THEN ret ELSE SelectSeq(ret, LAMBDA l : l # returnsLine3)

\* the template lines from..to that are not parameter markers, in order
Kept(from, to) ==
    LET keep == {i \in from..to : ~ParamMarkerAt(i)}
    IN [k \in 1..Cardinality(keep) |->
           arg.template[CHOOSE i \in keep : Cardinality({j \in keep : j <= i}) = k]]

\* C12: when the template has a parameter-marker line, the result is the
\* template with the first marker line replaced by the generated lines and
\* every other marker line removed; the other lines are kept in order.
C12_FirstMarkerReplaced ==
    (InjectedOnce /\ ParamMarkers # {}) =>
        ParamStepResult = SubSeq(arg.template, 1, Lowest(ParamMarkers) - 1)
                          \o arg.generated
                          \o Kept(Lowest(ParamMarkers) + 1, Len(arg.template))

\* two marker lines in the template, two generated lines in the result
C12_Witness ==
    /\ InjectedOnce
    /\ lang = "apex"
    /\ Cardinality(ParamMarkers) = 2
    /\ Len(arg.generated) = 2
    /\ Len(ret) = Len(arg.template)
    /\ SubSeq(ret, Lowest(ParamMarkers), Lowest(ParamMarkers) + 1) = arg.generated

\* C13: when the template has no parameter-marker line but a description
\* marker line, the result is the template with the generated lines put in
\* right after the first description-marker line, and nowhere else.
C13_AfterFirstDescription ==
    (InjectedOnce /\ ParamMarkers = {} /\ DescMarkers # {}) =>
        ParamStepResult = SubSeq(arg.template, 1, Lowest(DescMarkers))
                          \o arg.generated
                          \o SubSeq(arg.template, Lowest(DescMarkers) + 1, Len(arg.template))

\* two description lines in the template, the generated lines after the first
C13_Witness ==
    /\ InjectedOnce
    /\ ParamMarkers = {}
    /\ Cardinality(DescMarkers) = 2
    /\ Len(ParamStepResult) = Len(arg.template) + Len(arg.generated)
    /\ ParamStepResult[Lowest(DescMarkers) + 1] = arg.generated[1]

\* parameters were injected into the result of an injection into the template
InjectedTwice == call = "replaceOrInjectApexParams" /\ arg.calls = 2

Range(xs) == {xs[i] : i \in DOMAIN xs}

\* C14: for a template with a parameter or description marker, injecting G2
\* into the result of injecting G1 gives what injecting G2 into the template
\* gives; no line of G1 that is not a line of G2 is left.
C14_SecondInjectionReplaces ==
    (InjectedTwice /\ (ParamMarkers # {} \/ DescMarkers # {})) =>
        /\ ret = replaceOrInjectApexParams(arg.template, arg.generated)
        /\ Range(ret) \cap (Range(arg.first) \ Range(arg.generated)) = {}

\* a block of two lines replaced by a block of one other line
C14_Witness ==
    /\ InjectedTwice
    /\ ParamMarkers = {}
    /\ DescMarkers # {}
    /\ Len(arg.first) = 2
    /\ arg.generated = <<apexParamLine("b")>>
    /\ Len(ret) = Len(arg.template) + 1
    /\ apexParamLine("a") \notin Range(ret)

\* C30: when the template has neither a parameter-marker line nor a
\* description-marker line, the parameter step returns the lines of the
\* template as they are, and no generated parameter line is in the result.
C30_NoMarkerNoParams ==
    (InjectedOnce /\ ParamMarkers = {} /\ DescMarkers = {}) =>
        /\ ParamStepResult = arg.template
        /\ Range(ret) \cap Range(arg.generated) = {}

\* an Apex template of an opener, a line that is no marker and a closer,
\* returned as it is for two generated lines
C30_Witness ==
    /\ InjectedOnce
    /\ lang = "apex"
    /\ ParamMarkers = {}
    /\ DescMarkers = {}
    /\ Len(arg.template) >= 3
    /\ Len(arg.generated) = 2
    /\ ret = arg.template

ReturnsAt(lines) == {i \in DOMAIN lines : isReturnsMarker[lines[i]]}

ExamplesAt(lines) == {i \in DOMAIN lines : isExampleMarker[lines[i]]}

\* where the return line goes: before the first example line, else before
\* the final line (first when there is no line)
ReturnsPlace(lines) ==
    IF ExamplesAt(lines) # {} THEN Lowest(ExamplesAt(lines))
    ELSE IF Len(lines) = 0 THEN 1
    ELSE Len(lines)

\* C15: ensureReturnsInJSDoc returns its input when a line matches the
\* return-tag marker; otherwise the input with one return line put in before
\* the first example line, else before the final line; applied to its own
\* result it changes nothing.
C15_OneReturnsLine ==
    call = "ensureReturnsInJSDoc" =>
        /\ arg.calls = 1 =>
              IF ReturnsAt(arg.template) # {} THEN ret = arg.template
              ELSE /\ ret = SubSeq(arg.template, 1, ReturnsPlace(arg.template) - 1)
                             \o <<returnsLine2>>
                             \o SubSeq(arg.template, ReturnsPlace(arg.template),
                                       Len(arg.template))
                   /\ Cardinality(ReturnsAt(ret)) = 1
        /\ arg.calls = 2 => ret = ensureReturnsInJSDoc(arg.template)

\* a template with an example line and no return line
C15_Witness ==
    /\ call = "ensureReturnsInJSDoc"
    /\ arg.calls = 1
    /\ ReturnsAt(arg.template) = {}
    /\ ExamplesAt(arg.template) # {}
    /\ Lowest(ExamplesAt(arg.template)) < Len(arg.template)
    /\ ret[Lowest(ExamplesAt(arg.template))] = returnsLine2

(***************************************************************************)
(* Properties of the generate commands.                                    *)
(***************************************************************************)
Generating == call \in {"generateApexDoc", "generateJsDoc", "generateJsFileHeader"}

\* the handler asked loadSnippetBody for a template
Requested == Generating /\ ret.keys # <<>>

RequestedKey == ret.keys[1]

\* nothing was put into the editor
NothingInserted == ret.at = -1 /\ doc = arg.doc

C17_CachedTemplatesKept ==
    Generating =>
        /\ \A k \in DOMAIN snippetCache : snippetCache[k] = bodyOf(snippets[k])
        /\ \A k \in DOMAIN arg.cache :
              k \in DOMAIN snippetCache /\ snippetCache[k] = arg.cache[k]
        /\ (Requested /\ ~ret.threw) => ret.template = bodyOf(snippets[RequestedKey])

\* a cached template was loaded again and patched: the return line went
\* into a copy of it
C17_Witness ==
    /\ call = "generateJsDoc"
    /\ Requested
    /\ RequestedKey \in DOMAIN arg.cache
    /\ returnsLine2 \in Range(ret.snippet)
    /\ returnsLine2 \notin Range(snippetCache[RequestedKey])

\* C18: once a file header was put in, generateJsDoc on the Aura start line
\* "({" puts in no further file header.
C18_HeaderOnce ==
    (call = "generateJsDoc" /\ isAuraStart[lineAt(arg.doc, here)] /\ arg.headers > 0) =>
        ~ret.header

\* the locator ran and found no declaration
NothingDetected ==
    /\ call \in {"generateApexDoc", "generateJsDoc"}
    /\ ret.ran
    /\ ret.detected = NoSite

\* the handler only reported
OnlyReported ==
    /\ ~ret.threw
    /\ ret.keys = <<>>
    /\ NothingInserted
    /\ ret.message # ""

\* the lines of the document the handler ran on that are neither blank nor
\* line comments, a first line with "#!" being passed over like a comment
JsCodeLines ==
    {i \in (IF startsWith(lineAt(arg.doc, 0), "#!") THEN 1 ELSE 0)..(lineCount(arg.doc) - 1) :
        trim(lineAt(arg.doc, i)) # "" /\ ~startsWith(trim(lineAt(arg.doc, i)), "//")}

\* the focus is at or above the first code line, that line starts an Aura
\* helper and no line above it opens a block comment
AtTopOfAuraHelper ==
    /\ here <= Lowest(JsCodeLines)
    /\ isAuraStart[lineAt(arg.doc, Lowest(JsCodeLines))]
    /\ \A i \in 0..(Lowest(JsCodeLines) - 1) : ~startsWith(trim(lineAt(arg.doc, i)), "/**")

\* C19 as stated: when the locator finds no declaration, the handler loads
\* no template, puts nothing into the editor and only reports.
C19_StopsWithoutDeclaration == NothingDetected => OnlyReported

\* C19: when the locator finds no declaration, generateApexDoc only reports;
\* generateJsDoc fails without a report when the document has no code line,
\* asks for the file header template and puts it in at line 0 when the focus
\* is at or above the first code line of an Aura helper without a header,
\* and only reports otherwise.
C19_StopsOrFileHeader ==
    NothingDetected =>
        IF call = "generateApexDoc" THEN OnlyReported
        ELSE IF JsCodeLines = {}
        THEN ret.threw /\ ret.keys = <<>> /\ NothingInserted /\ ret.message = ""
        ELSE IF AtTopOfAuraHelper
        THEN /\ ret.keys = <<"JSDoc/file">>
             /\ ret.message = ""
             /\ \/ ret.threw /\ NothingInserted
                \/ ret.header /\ ret.at = 0 /\ doc # arg.doc
        ELSE OnlyReported

\* the focus is on a line above the "({" line: no declaration, a file header
C19_Witness ==
    /\ NothingDetected
    /\ call = "generateJsDoc"
    /\ JsCodeLines # {}
    /\ here < Lowest(JsCodeLines)
    /\ ret.header
    /\ lineCount(doc) > lineCount(arg.doc)

\* the locator found a declaration
Declared ==
    /\ call \in {"generateApexDoc", "generateJsDoc"}
    /\ ret.ran
    /\ ret.detected # NoSite

\* the handler called getApexParams or getJsParams
Reassembled == "params" \in Range(ret.steps)

\* the kinds that carry a parameter list
SignatureKinds == {"method", "constructor", "jsFunction", "jsMethod"}

\* the snippet is the template, with the type filled in for a variable
TemplateAsLoaded ==
    IF ret.detected.kind = "jsVariable"
    THEN ret.snippet = mapWithType(ret.template,
                                   inferJsVariableType(arg.doc, ret.detected.line))
    ELSE ret.snippet = ret.template

\* C21: a handler calls the signature reassembler only for a method, a
\* constructor, a jsFunction or a jsMethod (and then it does, once the
\* template is loaded); for every other kind there is no parameter list and
\* the snippet is the template as loaded, with none of the generated lines.
C21_ParamsOnlyForSignatures ==
    Declared =>
        /\ Reassembled => ret.detected.kind \in SignatureKinds
        /\ (ret.detected.kind \in SignatureKinds /\ ~ret.threw) => Reassembled
        /\ ret.detected.kind \notin SignatureKinds =>
              /\ ret.params = <<>>
              /\ Range(ret.snippet) \cap GeneratedTexts = {}
              /\ ~ret.threw => TemplateAsLoaded

\* the template of a property went in as it was loaded
C21_Witness ==
    /\ Declared
    /\ ret.detected.kind = "property"
    /\ ~Reassembled
    /\ ret.at # -1
    /\ ret.snippet = ret.template
    /\ lineCount(doc) = lineCount(arg.doc) + Len(ret.template)

\* the handler ended with the error of doc.lineAt, before any load
RanOffDocument == ret.threw /\ ret.keys = <<>>

\* C27: on a document of at least one line getAuraHelperPreambleInfo gives
\* a firstCodeLine that is a line of the document and reads no line beyond
\* the last one, also when every line is blank or a line comment; so a
\* handler that calls it does not end with the error of a line access out
\* of range.
C27_PreambleInRange ==
    (call \in {"generateJsDoc", "generateJsFileHeader"} /\ "preamble" \in Range(ret.steps)) =>
        /\ firstCodeLine(arg.doc) \in 0..(lineCount(arg.doc) - 1)
        /\ ~RanOffDocument

\* generateJsDoc on a document of blank lines and line comments only: the
\* error of doc.lineAt(lineCount), nothing reported, nothing inserted
C27_Witness ==
    /\ call = "generateJsDoc"
    /\ lineCount(arg.doc) >= 1
    /\ JsCodeLines = {}
    /\ ret.steps = <<"lineAt", "detect", "preamble">>
    /\ RanOffDocument
    /\ ret.message = ""
    /\ NothingInserted

\* where in the calls of the handler editor.insertSnippet is
InsertPlaces == {i \in DOMAIN ret.steps : ret.steps[i] = "insert"}

\* the insertion line, found in the document the handler started on
PlaceBefore ==
    IF ret.header THEN 0
    ELSE IF call = "generateApexDoc"
    THEN findTopOfAnnotationBlock(arg.doc, detectApexKindAndLine(arg.doc, here).line)
    ELSE IF detectJsKindAndLine(arg.doc, here).kind = "jsVariable"
    THEN detectJsKindAndLine(arg.doc, here).line
    ELSE findTopOfJsDecoratorBlock(arg.doc, detectJsKindAndLine(arg.doc, here).line)

\* C22: a handler calls editor.insertSnippet at most once and as its last
\* call, after every read of the document and of the cache; the insertion
\* line is the one found in the document as it was before the insertion,
\* and the document changes by that insertion only.
C22_InsertionLast ==
    Generating =>
        /\ Cardinality(InsertPlaces) <= 1
        /\ InsertPlaces \subseteq {Len(ret.steps)}
        /\ IF InsertPlaces = {} THEN NothingInserted
           ELSE /\ ret.at = PlaceBefore
                /\ doc = insertSnippet(arg.doc, snippetLines(ret.snippet), ret.newline, ret.at)

\* a patched template went in above the annotation or decorator over the
\* declaration
C22_Witness ==
    /\ Declared
    /\ ret.steps[Len(ret.steps)] = "insert"
    /\ "patch" \in Range(ret.steps)
    /\ "top" \in Range(ret.steps)
    /\ ret.at < ret.detected.line
    /\ lineCount(doc) > lineCount(arg.doc)

(***************************************************************************)
(* Properties of the document reads of the Apex pipeline.                  *)
(***************************************************************************)
\* the most reads one apexKindAtLine makes in a document of n lines: the
\* line, the window of isInsideEnumBlock, the window of findEnclosingClassName
KindReadsAtMost(n) == 1 + Min(n, 201) + Min(n, 401)

\* the most reads each call makes in a document of n lines, from the
\* windows of its loops
ReadsAtMost(n) ==
    IF call = "detectApexKindAndLine"
    THEN 1 + 2 * Min(n, 11) + n + (3 * Min(n, 201)) * KindReadsAtMost(n)
    ELSE IF call = "getApexParams"
    THEN Min(n, 401) + 2 * Min(n, 51) + Min(n, 51)
    ELSE n + 1

\* C28: for every document and every focus line in it, each call of the
\* Apex pipeline (the locator with apexKindAtLine, its context predicates
\* and findNextDeclDown, then getApexParams with locateApexSignatureStart,
\* then findTopOfAnnotationBlock) reads only lines 0..lineCount - 1 and
\* makes a number of reads that the windows of its loops bound.
C28_ReadsInDocument ==
    call # "none" =>
        /\ ret.lines \subseteq 0..(lineCount(doc) - 1)
        /\ ret.count <= ReadsAtMost(lineCount(doc))

\* the locator on the first line of a document of more than 200 lines found
\* nothing and read the document from line 0 to its last line
C28_Witness ==
    /\ call = "detectApexKindAndLine"
    /\ lineCount(doc) > 200
    /\ here = 0
    /\ arg = NoSite
    /\ 0 \in ret.lines
    /\ (lineCount(doc) - 1) \in ret.lines
    /\ ret.count > lineCount(doc)

(***************************************************************************)
(* Properties of the completion providers.                                 *)
(***************************************************************************)
Completed == call \in {"provideApexCompletionItems", "provideJsCompletionItems"}

\* the labels of the suggestions, in order
Labels == [i \in DOMAIN ret.items |-> ret.items[i].label]

\* the labels of the tag suggestions and of the snippet suggestions
TagLabels == SelectSeq(Labels, LAMBDA l : CharAt(l, 1) = "@")

SnippetPlaces == {i \in DOMAIN ret.items : ret.items[i].kind = "Snippet"}

\* the labels that occur more than once
Repeated == {Labels[i] : i \in {i \in DOMAIN Labels : \E j \in DOMAIN Labels : j # i /\ Labels[j] = Labels[i]}}

\* the kind the provider works with
CompletionKind ==
    IF lang = "apex" THEN kindOr(detectApexKindAndLine(doc, here), "class")
    ELSE kindOr(detectJsKindAndLine(doc, here), "jsFunction")

\* the tag lists the provider of the language can give, one per kind
TagListsOf(language) ==
    IF language = "apex"
    THEN {apexTags \o apexKindTags(k) :
             k \in {"class", "method", "constructor", "property", "enumValue"}}
    ELSE {byKind(k) : k \in {"jsFunction", "jsMethod", "jsVariable", "jsClass", "jsProperty"}}

\* the tags every kind of the language gets
CommonTags(language) ==
    {t \in UNION {Range(l) : l \in TagListsOf(language)} :
        \A l \in TagListsOf(language) : t \in Range(l)}

\* the tags every kind gets come before the others
CommonFirst ==
    \A i, j \in DOMAIN TagLabels :
        (TagLabels[i] \notin CommonTags(lang) /\ TagLabels[j] \in CommonTags(lang)) => i > j

\* the suggestions end with n snippets, and hold no other
SnippetsLast(n) ==
    SnippetPlaces = (Len(ret.items) - n + 1)..Len(ret.items) /\ Len(ret.items) >= n

InsideBlock == insideDocBlock(doc, here)

\* C20 as stated: inside a doc block the common tags come first, then the
\* tags of the kind, then two inline-reference snippets, and no label occurs
\* twice; outside a doc block nothing is suggested.
C20_CommonKindTwoSnippets ==
    Completed =>
        IF InsideBlock
        THEN ret.defined /\ CommonFirst /\ SnippetsLast(2) /\ Repeated = {}
        ELSE ~ret.defined /\ ret.items = <<>>

\* What the providers give (C20): outside a doc block nothing is suggested.
\* Inside one, the Apex provider gives its seven common tags, then the tags of the kind (for
\* class, property and enum value "@description" once more, the only label
\* that occurs twice), then two snippets; the JS/TS provider gives the tag
\* list of the kind, no label twice and not grouped by common tags, then one
\* snippet.
C20_TagsThenSnippets ==
    Completed =>
        IF ~InsideBlock THEN ~ret.defined /\ ret.items = <<>>
        ELSE IF lang = "apex"
        THEN /\ ret.defined
             /\ SubSeq(TagLabels, 1, 7) = apexTags
             /\ SubSeq(TagLabels, 8, Len(TagLabels)) =
                   (IF CompletionKind \in {"method", "constructor"}
                    THEN <<"@param", "@return", "@throws">> ELSE <<"@description">>)
             /\ SnippetsLast(2)
             /\ Repeated = (IF CompletionKind \in {"method", "constructor"}
                            THEN {} ELSE {"@description"})
        ELSE /\ ret.defined
             /\ TagLabels = byKind(CompletionKind)
             /\ SnippetsLast(1)
             /\ Repeated = {}
             /\ CompletionKind \in {"jsFunction", "jsMethod"} => ~CommonFirst

\* a request inside the doc block above a class: "@description" twice
C20_Witness ==
    /\ call = "provideApexCompletionItems"
    /\ InsideBlock
    /\ CompletionKind = "class"
    /\ Len(ret.items) = 10
    /\ Repeated = {"@description"}

====
